---------------------------- MODULE Spec2Model ----------------------------
(***************************************************************************)
(* A state machine of the RAG pipeline's orchestration layer:              *)
(*   - the persisted vector store (one directory on disk),                 *)
(*   - ChromaVectorDB wrapper instances with their cached store handle,    *)
(*   - the factory get_vector_db, the POST /search handler, RAGGenerator   *)
(*     and the CLI ingest command.                                         *)
(* The third-party libraries (Chroma, the embedding back ends, the LLM,    *)
(* the document loader, the text splitter) are the environment: what they  *)
(* return or raise is an input of the action that calls them.              *)
(***************************************************************************)
EXTENDS Integers, Sequences, FiniteSets, TLC

----------------------------------------------------------------------------
(* Bounds of the model *)

\* longest chunk list handed to create_vector_store, longest document list
MaxLen == 2
\* number of ChromaVectorDB instances that are alive at the same time
MaxWrappers == 1
\* store handles one instance creates before it is discarded
MaxHandles == 2
\* longest query string
MaxQuery == 2
\* most files in the directory a load scans
MaxFiles == 2
\* number of threads that can be inside setup_logger at the same time
MaxCallers == 2

----------------------------------------------------------------------------
(* Configuration values (src/config.py) *)

VectorDBTypes == {"chroma"}
\* what settings.vector_db_type can hold: the enum's value, or any other
\* value a patched configuration carries (tests/unit/test_retrieval.py:40)
VectorDBTypeValues == VectorDBTypes \cup {"unsupported_db"}

EmbeddingProviders == {"openai", "google", "huggingface"}
EmbeddingProviderValues == EmbeddingProviders \cup {"unsupported_embedding"}

LLMProviders == {"openai", "google"}
LLMProviderValues == LLMProviders \cup {"unsupported_llm"}

----------------------------------------------------------------------------
(* Documents *)

\* a Document: page_content and metadata, the metadata a set of <<key, value>>
Doc(content, metadata) == [page_content |-> content, metadata |-> metadata]

\* one chunk of a CSV row (source and row present), one chunk without metadata
Chunks ==
  { Doc("c1", {<<"source", "Engineer">>, <<"row", "0">>}),
    Doc("c2", {}) }

\* dict.get(key, default)
MetadataGet(metadata, key, default) ==
  IF \E p \in metadata : p[1] = key
    THEN (CHOOSE p \in metadata : p[1] = key)[2]
    ELSE default

SeqsUpTo(S, n) == UNION { [1..m -> S] : m \in 0..n }

ChunkLists == SeqsUpTo(Chunks, MaxLen)

----------------------------------------------------------------------------
(* Results of a call: what it raised ("none" when it returned), the value  *)
(* it returned, and the calls it made on its collaborators, in order.      *)

None == 0
NoException == "none"

\* raised by this code on an unsupported configuration value
ValueError == "ValueError"
\* raised by the store property when the persistence path does not exist
FileNotFoundError == "FileNotFoundError"
\* what a library, a hosted service or the operating system raises
\* (credentials, quota, network, an OSError of the file system, ...)
ProviderError == "ProviderError"
\* a call rejected by the callee's signature
TypeError == "TypeError"

----------------------------------------------------------------------------
(* The persisted store: the directory at settings.vector_db_path *)

Absent == [exists |-> FALSE, records |-> <<>>]

\* a stored record: the chunk and the provider whose model embedded it
Record(chunk, provider) == [chunk |-> chunk, provider |-> provider]

Embedded(chunks, provider) ==
  [i \in 1..Len(chunks) |-> Record(chunks[i], provider)]

\* a variant of PathExists that never reports the path missing
PathExists_always(d) == TRUE

\* os.path.exists(self.persist_directory)
PathExists(d) == d.exists

\* what shutil.rmtree can do on a path that exists.  "removed": it removes
\* the directory.  "kept": it raises and removes nothing (the path is a
\* symbolic link to the directory, or a regular file, or the process may
\* not write there).  "partial": it raises part-way, the directory still
\* there and the files of the collection gone
RmtreeOutcomes == {"removed", "kept", "partial"}

\* a variant of Rmtree that leaves the directory in place
Rmtree_kept(d, rm) == [raised |-> NoException, disk |-> d]

\* shutil.rmtree(self.persist_directory) on a path that exists
Rmtree(d, rm) ==
  IF rm = "removed" THEN [raised |-> NoException, disk |-> Absent]
  ELSE IF rm = "kept" THEN [raised |-> ProviderError, disk |-> d]
  ELSE [raised |-> ProviderError, disk |-> [exists |-> TRUE, records |-> <<>>]]

\* Chroma.from_documents(documents, embedding, persist_directory): opens the
\* collection at the path (creating the directory when it is not there) and
\* adds one record per document to whatever the collection already holds
FromDocuments(d, chunks, provider) ==
  [exists |-> TRUE, records |-> d.records \o Embedded(chunks, provider)]


----------------------------------------------------------------------------
(* ChromaVectorDB (src/retrieval/vector_db.py) *)

\* a slot of the instance pool that holds no instance
NoWrapper == [alive |-> FALSE, embeddings |-> "none", _store |-> None, made |-> 0]

\* what the constructor of a library class can do: return (NoException) or
\* raise; the search handler tells a FileNotFoundError from every other
\* exception, for which ProviderError stands
LibraryErrors == {ProviderError, FileNotFoundError}
LibraryOutcomes == {NoException} \cup LibraryErrors

\* a variant of _get_embedding_model whose last branch is the local back end
_get_embedding_model_fallback(provider, lib) ==
  IF lib # NoException THEN [raised |-> lib, value |-> "none"]
  ELSE IF provider = "openai"
    THEN [raised |-> NoException, value |-> "OpenAIEmbeddings"]
  ELSE IF provider = "google"
    THEN [raised |-> NoException, value |-> "GoogleGenerativeAIEmbeddings"]
  ELSE [raised |-> NoException, value |-> "HuggingFaceEmbeddings"]

\* _get_embedding_model: the back end for the configured provider; lib is
\* what the back end's own constructor does
_get_embedding_model(provider, lib) ==
  IF provider = "openai" THEN
    IF lib = NoException
      THEN [raised |-> NoException, value |-> "OpenAIEmbeddings"]
      ELSE [raised |-> lib, value |-> "none"]
  ELSE IF provider = "google" THEN
    IF lib = NoException
      THEN [raised |-> NoException, value |-> "GoogleGenerativeAIEmbeddings"]
      ELSE [raised |-> lib, value |-> "none"]
  ELSE IF provider = "huggingface" THEN
    IF lib = NoException
      THEN [raised |-> NoException, value |-> "HuggingFaceEmbeddings"]
      ELSE [raised |-> lib, value |-> "none"]
  ELSE [raised |-> ValueError, value |-> "none"]

EmbeddingBackends ==
  { "OpenAIEmbeddings", "GoogleGenerativeAIEmbeddings", "HuggingFaceEmbeddings" }

\* __init__: persist_directory and embeddings from the settings, no handle
ChromaVectorDB(cfg, lib) ==
  LET e == _get_embedding_model(cfg.embedding_provider, lib) IN
    IF e.raised # NoException
      THEN [raised |-> e.raised, value |-> NoWrapper]
      ELSE [raised |-> NoException,
            value  |-> [alive |-> TRUE, embeddings |-> e.value,
                        _store |-> None, made |-> 0]]

\* Chroma(persist_directory, embedding_function): opens the collection at the
\* path; the client creates the directory when it is not there and leaves
\* the records of an existing one as they are
Chroma(d) == [exists |-> TRUE, records |-> d.records]

\* `self._store = Chroma(...)` and `return self._store`, the statements
\* of the store property after its path check, run on the persisted store
\* d; open is what the constructor Chroma(...) does: when it raises, nothing
\* is assigned to self._store and the exception leaves the property
store_open(self, d, open) ==
  IF open # NoException THEN
    [raised |-> open, self |-> self, value |-> None, disk |-> d,
     calls |-> <<"Chroma">>]
  ELSE
    [raised |-> NoException,
     self   |-> [self EXCEPT !._store = self.made + 1, !.made = self.made + 1],
     value  |-> self.made + 1,
     disk   |-> Chroma(d),
     calls  |-> <<"Chroma">>]

\* a variant of store that looks at the path on every access
store_rechecks(self, d, open) ==
  IF ~PathExists(d)
    THEN [raised |-> FileNotFoundError, self |-> self, value |-> None,
          disk |-> d, calls |-> <<"exists">>]
  ELSE IF self._store = None
    THEN [store_open(self, d, open) EXCEPT !.calls = <<"exists">> \o @]
  ELSE [raised |-> NoException, self |-> self, value |-> self._store,
        disk |-> d, calls |-> <<"exists">>]

\* the store property: the cached handle, or a handle opened on the path;
\* disk is the persisted store as the call leaves it.  The path check and
\* the opening see the same store d: nothing runs between them
store(self, d, open) ==
  IF self._store = None THEN
    IF ~PathExists(d)
      THEN [raised |-> FileNotFoundError, self |-> self, value |-> None,
            disk |-> d, calls |-> <<"exists">>]
      ELSE [store_open(self, d, open) EXCEPT !.calls = <<"exists">> \o @]
  ELSE [raised |-> NoException, self |-> self, value |-> self._store,
        disk |-> d, calls |-> <<>>]

\* the k of the retriever as_retriever builds
RetrieverK == 5

\* the keys of the search_kwargs as_retriever passes: k and nothing else
\* (no score_threshold, no filter)
RetrieverKwargs == {"k"}

\* as_retriever: self.store.as_retriever(search_kwargs={"k": 5}); retr is
\* what the handle's as_retriever(...) does, called once the store property
\* has returned the handle
as_retriever(self, d, open, retr) ==
  LET s == store(self, d, open) IN
    IF s.raised # NoException
      THEN [raised |-> s.raised, self |-> s.self, value |-> None,
            disk |-> s.disk, calls |-> s.calls]
    ELSE IF retr # NoException
      THEN [raised |-> retr, self |-> s.self, value |-> None,
            disk |-> s.disk, calls |-> s.calls \o <<"as_retriever">>]
      ELSE [raised |-> NoException, self |-> s.self,
            value  |-> [handle |-> s.value, k |-> RetrieverK,
                        search_kwargs |-> RetrieverKwargs],
            disk   |-> s.disk,
            calls  |-> s.calls \o <<"as_retriever">>]

\* a variant of no_chunks that never skips the write
no_chunks_never(chunks) == FALSE

\* `if not chunks`: the chunk list is empty
no_chunks(chunks) == Len(chunks) = 0

\* create_vector_store(chunks).  rm is what shutil.rmtree does when the
\* path exists: when it raises, the except clause logs and re-raises and
\* Chroma.from_documents is not called.  persisted is how many of the chunks
\* Chroma.from_documents embedded and wrote before it returned or raised:
\* Len(chunks) when it succeeded, fewer when it raised after opening the
\* collection, -1 when it raised before the directory was created.
create_vector_store(self, d, chunks, rm, persisted) ==
  IF no_chunks(chunks) THEN
    [raised |-> NoException, self |-> self, disk |-> d, calls |-> <<>>]
  ELSE IF PathExists(d) /\ Rmtree(d, rm).raised # NoException THEN
    [raised |-> Rmtree(d, rm).raised, self |-> self,
     disk |-> Rmtree(d, rm).disk, calls |-> <<"exists", "rmtree">>]
  ELSE
    LET cleared == IF PathExists(d) THEN Rmtree(d, rm).disk ELSE d
        c1 == IF PathExists(d) THEN <<"exists", "rmtree">> ELSE <<"exists">>
    IN  IF persisted = Len(chunks) THEN
          [raised |-> NoException,
           self   |-> [self EXCEPT !._store = self.made + 1,
                                   !.made = self.made + 1],
           disk   |-> FromDocuments(cleared, chunks, self.embeddings),
           calls  |-> c1 \o <<"from_documents">>]
        ELSE
          [raised |-> ProviderError,
           self   |-> self,
           disk   |-> IF persisted < 0 THEN cleared
                      ELSE FromDocuments(cleared, SubSeq(chunks, 1, persisted),
                                         self.embeddings),
           calls  |-> c1 \o <<"from_documents">>]

\* a variant of get_vector_db that falls back to Chroma for any other type
get_vector_db_fallback(cfg, lib) ==
  LET w == ChromaVectorDB(cfg, lib) IN
    [raised |-> w.raised, value |-> w.value, calls |-> <<"ChromaVectorDB">>]

\* get_vector_db: the factory
get_vector_db(cfg, lib) ==
  IF cfg.vector_db_type = "chroma" THEN
    LET w == ChromaVectorDB(cfg, lib) IN
      [raised |-> w.raised, value |-> w.value, calls |-> <<"ChromaVectorDB">>]
  ELSE
    [raised |-> ValueError, value |-> NoWrapper, calls |-> <<>>]

----------------------------------------------------------------------------
(* POST /search (src/api/main.py) *)

\* A character above U+00FF cannot be written in a string of this module:
\* it is named by its code point, "U+2003" for U+2003.

\* the characters str.strip() removes, those for which str.isspace() holds:
\* space, tab, line feed, carriage return, form feed, then, written as the
\* characters themselves, U+000B, U+001C..U+001F, U+0085 and U+00A0, then
\* the spaces above U+00FF
Whitespace ==
  {" ", "\t", "\n", "\r", "\f", "", "", "", "", "", "", " ",
   "U+1680", "U+2000", "U+2001", "U+2002", "U+2003", "U+2004", "U+2005",
   "U+2006", "U+2007", "U+2008", "U+2009", "U+200A", "U+2028", "U+2029",
   "U+202F", "U+205F", "U+3000"}

\* the characters of a query: two that str.strip removes, one that it keeps
Chars == {" ", "U+2003", "a"}
Queries == SeqsUpTo(Chars, MaxQuery)

\* str.strip(): the string without its leading and trailing whitespace
RECURSIVE lstrip(_)
lstrip(q) ==
  IF Len(q) = 0 THEN q
  ELSE IF Head(q) \in Whitespace THEN lstrip(Tail(q))
  ELSE q

RECURSIVE rstrip(_)
rstrip(q) ==
  IF Len(q) = 0 THEN q
  ELSE IF q[Len(q)] \in Whitespace THEN rstrip(SubSeq(q, 1, Len(q) - 1))
  ELSE q

\* a variant of strip that removes nothing
strip_nothing(q) == q

strip(q) == rstrip(lstrip(q))

\* SearchRequest: k is an integer in KMin..KMax, KDefault when it is omitted
KMin == 1
KMax == 20
KDefault == 5

KValues == {KMin - 1, KMin, KMax, KMax + 1}

Requests ==
  { [query |-> q, hasK |-> FALSE, k |-> 0] : q \in Queries } \cup
  { [query |-> q, hasK |-> TRUE, k |-> n] : q \in Queries, n \in KValues }

\* the schema's validation of the request body
SearchRequest(body) ==
  LET k == IF body.hasK THEN body.k ELSE KDefault IN
    [valid |-> k >= KMin /\ k <= KMax, query |-> body.query, k |-> k]

\* relevance scores, in units of 0.00001: score stands for the double
\* nearest to score / 100000
Scores == {29996, 30000, 30015, 90000}

\* SIMILARITY_THRESHOLD = 0.3, in units of 0.00001
SIMILARITY_THRESHOLD == 30000

\* a * 2^n modulo m
RECURSIVE DoubleMod(_, _, _)
DoubleMod(a, n, m) ==
  IF n = 0 THEN a % m ELSE DoubleMod((2 * a) % m, n - 1, m)

\* the least j with a * 2^j >= 100000, for a > 0
RECURSIVE Doublings(_)
Doublings(a) == IF a >= 100000 THEN 0 ELSE 1 + Doublings(2 * a)

\* the greatest h with u * 2^h <= a, for a >= u
RECURSIVE Halvings(_, _)
Halvings(u, a) == IF 2 * u > a THEN 0 ELSE 1 + Halvings(2 * u, a)

\* float(score): where the double nearest to score / 100000 lies with
\* respect to score / 100000, for score > 0: -1 below it, 0 on it, 1 above
\* it.  The double is m / 2^s with 2^52 <= m < 2^53 and m the integer
\* nearest to score * 2^s / 100000; the remainder of that division tells
\* which way m was rounded (it is never exactly one half).
float_error(score) ==
  LET s   == 52 + Doublings(score) - Halvings(100000, score)
      rem == DoubleMod(score, s, 100000)
  IN  IF rem = 0 THEN 0 ELSE IF rem < 50000 THEN -1 ELSE 1

\* round(float(score), 4): the score in units of 0.0001.  round() rounds the
\* exact value of the double, ties to even; a score that ends in 5 is a tie
\* only when its double is exact
RECURSIVE round4(_)
round4(score) ==
  IF score < 0 THEN 0 - round4(0 - score)
  ELSE IF score = 0 THEN 0
  ELSE
    LET q == score \div 10
        r == score % 10
    IN  IF r < 5 THEN q
        ELSE IF r > 5 THEN q + 1
        ELSE IF float_error(score) < 0 THEN q
        ELSE IF float_error(score) > 0 THEN q + 1
        ELSE IF q % 2 = 0 THEN q ELSE q + 1

\* what similarity_search_with_relevance_scores(query, k) can return on the
\* store d: at most k of the stored records, each once, with a score, the
\* scores in descending order
NeighborLists(d, k) ==
  LET n == Len(d.records)
      m == IF k < n THEN k ELSE n
      Cand == SeqsUpTo((1..n) \X Scores, m)
  IN  { [i \in 1..Len(c) |-> [doc |-> d.records[c[i][1]].chunk, idx |-> c[i][1],
                              score |-> c[i][2]]] :
        c \in { x \in Cand :
                  /\ \A i, j \in 1..Len(x) : i # j => x[i][1] # x[j][1]
                  /\ \A i \in 1..(Len(x) - 1) : x[i][2] >= x[i + 1][2] } }

\* the library's answer to the search: a list of neighbors, or an error
\* (FileNotFoundError, or any other exception)
SearchRaises(exc) == [raised |-> exc, neighbors |-> <<>>]
SearchOutcomes(d, k) ==
  { SearchRaises(exc) : exc \in LibraryErrors } \cup
  { [raised |-> NoException, neighbors |-> ns] : ns \in NeighborLists(d, k) }

\* the answer recorded for a request whose handler does not get to the
\* similarity search: none is read
NotSearched == SearchRaises(NoException)

\* one entry of the response
formatted_result(n) ==
  [content   |-> n.doc.page_content,
   source    |-> MetadataGet(n.doc.metadata, "source", "Unknown"),
   job_title |-> MetadataGet(n.doc.metadata, "source", "N/A"),
   score     |-> round4(n.score),
   id        |-> MetadataGet(n.doc.metadata, "row", "N/A")]

\* a variant of keeps with a strict comparison
keeps_strict(score) == score > SIMILARITY_THRESHOLD

\* whether the handler keeps a neighbor
keeps(score) == score >= SIMILARITY_THRESHOLD

\* the loop over docs_with_scores
RECURSIVE formatted_results(_)
formatted_results(ns) ==
  IF Len(ns) = 0 THEN <<>>
  ELSE IF keeps(Head(ns).score)
    THEN <<formatted_result(Head(ns))>> \o formatted_results(Tail(ns))
    ELSE formatted_results(Tail(ns))

\* a variant of search_except without the FileNotFoundError clause
search_except_generic(exc) == 500

\* the handler's except clauses: the status of the HTTPException raised
search_except(exc) ==
  IF exc = FileNotFoundError THEN 503 ELSE 500

\* what one request gives: the response, the calls made, and the persisted
\* store as the request leaves it
Response(status, results, calls, d) ==
  [status |-> status, results |-> results, calls |-> calls, disk |-> d]

\* the handler from the similarity search on: f is what get_vector_db gave,
\* s what the store property gave, out the library's answer to the search
search_found(f, s, out) ==
  IF out.raised # NoException THEN
    Response(search_except(out.raised), <<>>,
             <<"get_vector_db">> \o f.calls \o s.calls
               \o <<"similarity_search_with_relevance_scores">>, s.disk)
  ELSE
    Response(200, formatted_results(out.neighbors),
             <<"get_vector_db">> \o f.calls \o s.calls
               \o <<"similarity_search_with_relevance_scores">>, s.disk)

\* the handler body, run on a validated request; open is what Chroma(...)
\* does in the store property and out the library's answer to the
\* similarity search, each read only when the handler gets that far
search(request, d, cfg, lib, open, out) ==
  IF Len(strip(request.query)) = 0 THEN Response(200, <<>>, <<>>, d)
  ELSE
    LET f == get_vector_db(cfg, lib) IN
      IF f.raised # NoException THEN
        Response(search_except(f.raised), <<>>, <<"get_vector_db">> \o f.calls, d)
      ELSE
        LET s == store(f.value, d, open) IN
          IF s.raised # NoException THEN
            Response(search_except(s.raised), <<>>,
                     <<"get_vector_db">> \o f.calls \o s.calls, s.disk)
          ELSE search_found(f, s, out)

\* a variant of search_k that always asks for the default number
search_k_default(request) == KDefault

\* the k the handler passes to the similarity search: k=request.k
search_k(request) == request.k

\* the endpoint: schema validation, then the handler
post_search(body, d, cfg, lib, open, out) ==
  LET request == SearchRequest(body) IN
    IF ~request.valid THEN Response(422, <<>>, <<>>, d)
    ELSE search(request, d, cfg, lib, open, out)

Calls(seq, name) == \E i \in 1..Len(seq) : seq[i] = name

\* whether the request gets past the path check of the store property on
\* the store d, and so goes on to open the store
opens_store(body, d, cfg, lib) ==
  Calls(post_search(body, d, cfg, lib, NoException, NotSearched).calls, "Chroma")

----------------------------------------------------------------------------
(* RAGGenerator (src/generation/llm.py) *)

\* _get_llm_model: the LLM for the configured provider; libOk is whether the
\* LLM class's own constructor succeeds
_get_llm_model(provider, libOk) ==
  IF provider = "google" THEN
    IF libOk THEN [raised |-> NoException, value |-> "ChatGoogleGenerativeAI"]
             ELSE [raised |-> ProviderError, value |-> "none"]
  ELSE
    IF libOk THEN [raised |-> NoException, value |-> "ChatOpenAI"]
             ELSE [raised |-> ProviderError, value |-> "none"]

\* __init__: self.llm = self._get_llm_model(), then the prompt template
RAGGenerator(cfg, libOk) ==
  LET m == _get_llm_model(cfg.llm_provider, libOk) IN
    [raised |-> m.raised, value |-> [llm |-> m.value], calls |-> <<>>]

----------------------------------------------------------------------------
(* The CLI query command (src/main.py) *)

\* what chain.invoke(question) gives: the answer, or the error of the
\* retriever, the embedding back end or the LLM
ChainRaises == [raised |-> ProviderError, value |-> "none"]
ChainOutcomes == {ChainRaises, [raised |-> NoException, value |-> "answer"]}

\* the except clauses around vsm.as_retriever(): what each prints
query_except_retriever(exc) ==
  IF exc = FileNotFoundError THEN <<"Error">> ELSE <<>>

\* the questions a user asks
Questions == {"q1", "q2"}

\* args.q: None when --q is not given, else the string given, which can be
\* the empty string
QuestionArgs ==
  {[given |-> FALSE, value |-> ""]}
    \cup { [given |-> TRUE, value |-> q] : q \in {""} \cup Questions }

\* `if not args.q`: None and the empty string are both false
no_question(q) == ~q.given \/ q.value = ""

\* a variant of invocations that invokes the chain again after a failure
invocations_retry(question, chainOut) ==
  IF chainOut.raised # NoException THEN <<question, question>> ELSE <<question>>

\* the try block around chain.invoke(question): the arguments of the
\* invocations it makes, whether the invocation returns or raises
invocations(question, chainOut) == <<question>>

\* rag.get_chain(retriever): the chain over the retriever and the LLM
get_chain(rag, retriever) == [retriever |-> retriever, llm |-> rag.llm]

\* no retriever has been obtained, no chain has been built
NoRetriever == [handle |-> None, k |-> None, search_kwargs |-> {}]
NoChain == [retriever |-> NoRetriever, llm |-> "none"]

\* what one run of the command gives: whether it returned or an exception
\* left it, what it printed, the calls it made, the retriever it got, the
\* chain it built, the arguments of its chain invocations, and the persisted
\* store as the run leaves it
QueryResult(outcome, exc, printed, calls, retriever, chain, invoked, d) ==
  [outcome |-> outcome, raised |-> exc, printed |-> printed, calls |-> calls,
   retriever |-> retriever, chain |-> chain, invoked |-> invoked, disk |-> d]

\* query(question); open and retr are what Chroma(...) and the handle's
\* as_retriever(...) do inside vsm.as_retriever(), chainOut is what
\* chain.invoke gives, each read only when the command gets that far
query(question, d, cfg, lib, open, retr, llmCfg, llmOk, chainOut) ==
  LET f == get_vector_db(cfg, lib) IN
    IF f.raised # NoException THEN
      QueryResult("raised", f.raised, <<>>, <<"get_vector_db">>,
                  NoRetriever, NoChain, <<>>, d)
    ELSE
      LET r == as_retriever(f.value, d, open, retr) IN
        IF r.raised # NoException THEN
          QueryResult("returned", NoException, query_except_retriever(r.raised),
                      <<"get_vector_db", "as_retriever">>,
                      NoRetriever, NoChain, <<>>, r.disk)
        ELSE
          LET g == RAGGenerator(llmCfg, llmOk) IN
            IF g.raised # NoException THEN
              QueryResult("raised", g.raised, <<>>,
                          <<"get_vector_db", "as_retriever", "RAGGenerator">>,
                          r.value, NoChain, <<>>, r.disk)
            ELSE
              LET chain == get_chain(g.value, r.value)
                  asked == invocations(question, chainOut)
                  calls == <<"get_vector_db", "as_retriever", "RAGGenerator",
                             "get_chain">> \o [i \in 1..Len(asked) |-> "invoke"]
              IN  IF chainOut.raised # NoException THEN
                    QueryResult("returned", NoException,
                                <<"Thinking", "GenerationError">>,
                                calls, r.value, chain, asked, r.disk)
                  ELSE
                    QueryResult("returned", NoException,
                                <<"Thinking", "Answer">>,
                                calls, r.value, chain, asked, r.disk)

\* the query mode of the command line: without a question it prints how to
\* give one and ends (exit status 0); with one it runs query(args.q)
query_mode(q, d, cfg, lib, open, retr, llmCfg, llmOk, chainOut) ==
  IF no_question(q) THEN
    QueryResult("returned", NoException,
                <<"Error: Please provide a question using --q">>, <<>>,
                NoRetriever, NoChain, <<>>, d)
  ELSE query(q.value, d, cfg, lib, open, retr, llmCfg, llmOk, chainOut)

----------------------------------------------------------------------------
(* The ingestion layer and the CLI ingest command                          *)
(* (src/ingestion/loader.py, src/ingestion/manager.py, src/main.py)        *)

Docs == { Doc("d1", {<<"source", "a.pdf">>}) }
DocLists == SeqsUpTo(Docs, MaxLen)

\* what DirectoryLoader(...).load() gives: the documents, or an error
LoadRaises == [raised |-> FileNotFoundError, value |-> <<>>]
LoadOutcomes ==
  {LoadRaises} \cup { [raised |-> NoException, value |-> ds] : ds \in DocLists }

\* what the text splitter gives: the chunks, or an error
ChunkRaises == [raised |-> ValueError, value |-> <<>>]
ChunkOutcomes ==
  {ChunkRaises} \cup { [raised |-> NoException, value |-> cs] : cs \in ChunkLists }

\* a file of the data directory: its name, its extension, and whether its
\* parser reads it without error
File(name, ext, parses) == [name |-> name, ext |-> ext, parses |-> parses]

Files ==
  { File("a", "pdf", TRUE), File("b", "pdf", FALSE), File("n", "csv", TRUE) }

\* the data directory: missing, or the files it holds in the order the scan
\* visits them
MissingDirectory == [exists |-> FALSE, files |-> <<>>]
Directories ==
  {MissingDirectory} \cup
  { [exists |-> TRUE, files |-> fs] :
      fs \in { x \in SeqsUpTo(Files, MaxFiles) :
                 \A i, j \in 1..Len(x) : i # j => x[i].name # x[j].name } }

Globs == {"*.pdf", "*.csv"}

\* whether the glob matches the file
Matches(file, glob) ==
  \/ glob = "*.pdf" /\ file.ext = "pdf"
  \/ glob = "*.csv" /\ file.ext = "csv"

\* the document the parser makes of a file
FileDoc(file) == Doc(file.name, {<<"source", file.name>>})

\* DirectoryLoader.load() over the files: each matched file is parsed in
\* turn; when a file's parser raises, the loader logs a warning and goes on
\* if silent_errors is set, and logs an error and raises otherwise
RECURSIVE LoadFiles(_, _, _)
LoadFiles(files, glob, silent_errors) ==
  IF Len(files) = 0 THEN [raised |-> NoException, value |-> <<>>]
  ELSE IF ~Matches(Head(files), glob)
    THEN LoadFiles(Tail(files), glob, silent_errors)
  ELSE IF ~Head(files).parses THEN
    IF silent_errors THEN LoadFiles(Tail(files), glob, silent_errors)
    ELSE [raised |-> ProviderError, value |-> <<>>]
  ELSE
    LET rest == LoadFiles(Tail(files), glob, silent_errors) IN
      IF rest.raised # NoException THEN rest
      ELSE [raised |-> NoException,
            value |-> <<FileDoc(Head(files))>> \o rest.value]

\* DirectoryLoader(path, glob, loader_cls, silent_errors).load()
DirectoryLoader_load(dir, glob, silent_errors) ==
  IF ~dir.exists THEN [raised |-> FileNotFoundError, value |-> <<>>]
  ELSE LoadFiles(dir.files, glob, silent_errors)

\* silent_errors of the DirectoryLoader load_documents builds: the argument
\* is not passed, so it is the class's default
silent_errors_default == FALSE

\* DirectoryLoader(directory_path, glob="*.pdf", loader_cls=PyPDFLoader).load()
load_directory(dir) == DirectoryLoader_load(dir, "*.pdf", silent_errors_default)

\* the keyword parameters load_documents declares besides directory_path
LoadDocumentsKeywords == {}

\* load_documents called with directory_path and the given keyword arguments
load_documents(keywords, found) ==
  IF keywords \subseteq LoadDocumentsKeywords
    THEN found
    ELSE [raised |-> TypeError, value |-> <<>>]

\* IngestionManager.load: load_documents(source, glob_pattern=pattern)
IngestionManager_load(found) == load_documents({"glob_pattern"}, found)

\* the keyword arguments a caller gives IngestionManager.load
NoKwargs == [given |-> FALSE, glob_pattern |-> "none"]
LoadKwargs == {NoKwargs} \cup { [given |-> TRUE, glob_pattern |-> g] : g \in Globs }

\* kwargs.get("glob_pattern", "*.pdf")
glob_pattern(kwargs) == IF kwargs.given THEN kwargs.glob_pattern ELSE "*.pdf"

\* IngestionManager.chunk: split_documents(documents, chunk_size=chunk_size)
IngestionManager_chunk(split) == split

\* settings.chunk_size and settings.chunk_overlap, in characters
ChunkSizeSettings == {2, 4}
ChunkOverlapSettings == {0, 1, 3}
SplitSettings == [chunk_size : ChunkSizeSettings, chunk_overlap : ChunkOverlapSettings]

\* the chunk_size argument: not given (None), or an integer
NoChunkSize == [given |-> FALSE, value |-> 0]
ChunkSizeArgs ==
  {NoChunkSize} \cup { [given |-> TRUE, value |-> n] : n \in {0, 1, 2, 4} }

\* `chunk_size or settings.chunk_size`: None and 0 are both false
final_chunk_size(chunk_size, cfg) ==
  IF chunk_size.given /\ chunk_size.value # 0
    THEN chunk_size.value
    ELSE cfg.chunk_size

\* RecursiveCharacterTextSplitter(chunk_size, chunk_overlap, ...): the
\* constructor raises ValueError when the overlap is larger than the size
RecursiveCharacterTextSplitter(size, overlap) ==
  IF overlap > size
    THEN [raised |-> ValueError, chunk_size |-> size, chunk_overlap |-> overlap]
    ELSE [raised |-> NoException, chunk_size |-> size, chunk_overlap |-> overlap]

\* split_documents(documents, chunk_size); libChunks is what the splitter's
\* split_documents gives for the documents, read only when it is built
split_documents(documents, chunk_size, cfg, libChunks) ==
  LET t == RecursiveCharacterTextSplitter(final_chunk_size(chunk_size, cfg),
                                          cfg.chunk_overlap)
  IN  IF t.raised # NoException
        THEN [raised |-> t.raised, value |-> <<>>, splitter |-> t,
              calls |-> <<"RecursiveCharacterTextSplitter">>]
        ELSE [raised |-> NoException,
              value  |-> IF Len(documents) = 0 THEN <<>> ELSE libChunks,
              splitter |-> t,
              calls  |-> <<"RecursiveCharacterTextSplitter", "split_documents">>]

\* the manager ingest uses: the class itself, or the stand-in the unit tests
\* patch into src.main, whose load and chunk return what they are told to
Managers == {"IngestionManager", "patched"}

manager_load(manager, found) ==
  IF manager = "IngestionManager" THEN IngestionManager_load(found) ELSE found

manager_chunk(manager, split) ==
  IF manager = "IngestionManager" THEN IngestionManager_chunk(split) ELSE split

\* a variant of ingest_except that logs the error and returns
ingest_except_returns(exc) == [outcome |-> "returned", code |-> 0]

\* ingest's except clause: log the error, sys.exit(1)
ingest_except(exc) == [outcome |-> "SystemExit", code |-> 1]

IngestResult(h, exc, d, calls) ==
  [outcome |-> h.outcome, code |-> h.code, raised |-> exc, disk |-> d,
   calls |-> calls]

Returned == [outcome |-> "returned", code |-> 0]

\* a variant of no_docs that never aborts the run
no_docs_never(docs) == FALSE

\* `if not docs`: the load gave no document
no_docs(docs) == Len(docs) = 0

\* ingest(data_dir)
ingest(manager, d, loadOut, chunkOut, cfg, lib, rm, persisted) ==
  LET l == manager_load(manager, loadOut) IN
    IF l.raised # NoException THEN
      IngestResult(ingest_except(l.raised), l.raised, d, <<"load">>)
    ELSE IF no_docs(l.value) THEN
      IngestResult(Returned, NoException, d, <<"load">>)
    ELSE
      LET c == manager_chunk(manager, chunkOut) IN
        IF c.raised # NoException THEN
          IngestResult(ingest_except(c.raised), c.raised, d, <<"load", "chunk">>)
        ELSE
          LET f == get_vector_db(cfg, lib) IN
            IF f.raised # NoException THEN
              IngestResult(ingest_except(f.raised), f.raised, d,
                           <<"load", "chunk", "get_vector_db">>)
            ELSE
              LET w == create_vector_store(f.value, d, c.value, rm, persisted) IN
                IF w.raised # NoException THEN
                  IngestResult(ingest_except(w.raised), w.raised, w.disk,
                    <<"load", "chunk", "get_vector_db", "create_vector_store">>)
                ELSE
                  IngestResult(Returned, NoException, w.disk,
                    <<"load", "chunk", "get_vector_db", "create_vector_store">>)

----------------------------------------------------------------------------
(* Logging (src/utils/logger.py) *)

\* the names modules and tests register their loggers under
LoggerNames == {"src.main", "src.api.main", "test_logger"}

\* what logging.getLogger(name) creates the first time the name is asked
\* for: no handler, and the level NOTSET (0)
NewLogger == [handlers |-> <<>>, level |-> 0]

\* the level names the logging module knows and the numeric level of each
\* (WARN and FATAL are accepted as names of WARNING and CRITICAL)
LevelTable ==
  {
    [name |-> <<"C", "R", "I", "T", "I", "C", "A", "L">>, level |-> 50],
    [name |-> <<"F", "A", "T", "A", "L">>, level |-> 50],
    [name |-> <<"E", "R", "R", "O", "R">>, level |-> 40],
    [name |-> <<"W", "A", "R", "N">>, level |-> 30],
    [name |-> <<"W", "A", "R", "N", "I", "N", "G">>, level |-> 30],
    [name |-> <<"I", "N", "F", "O">>, level |-> 20],
    [name |-> <<"D", "E", "B", "U", "G">>, level |-> 10],
    [name |-> <<"N", "O", "T", "S", "E", "T">>, level |-> 0]
  }

LevelNames == { e.name : e \in LevelTable }

\* logger.setLevel(name): the numeric level of a known name
_checkLevel(name) == (CHOOSE e \in LevelTable : e.name = name).level

\* what settings.log_level can hold: any string, here as its characters
LogLevelSettings ==
  { <<"U+0131", "n", "f", "o">>, <<"d", "e", "b", "u", "g">>,
    <<"W", "a", "r", "n">>, <<"v", "e", "r", "b", "o", "s", "e">> }

\* the characters up to U+00FF that str.upper() maps to one other character
\* up to U+00FF, and what it maps each to
LowerChars ==
  <<
    "a", "b", "c", "d", "e", "f", "g", "h", "i", "j", "k", "l", "m", "n",
    "o", "p", "q", "r", "s", "t", "u", "v", "w", "x", "y", "z", "à", "á",
    "â", "ã", "ä", "å", "æ", "ç", "è", "é", "ê", "ë", "ì", "í", "î", "ï",
    "ð", "ñ", "ò", "ó", "ô", "õ", "ö", "ø", "ù", "ú", "û", "ü", "ý", "þ"
  >>
UpperChars ==
  <<
    "A", "B", "C", "D", "E", "F", "G", "H", "I", "J", "K", "L", "M", "N",
    "O", "P", "Q", "R", "S", "T", "U", "V", "W", "X", "Y", "Z", "À", "Á",
    "Â", "Ã", "Ä", "Å", "Æ", "Ç", "È", "É", "Ê", "Ë", "Ì", "Í", "Î", "Ï",
    "Ð", "Ñ", "Ò", "Ó", "Ô", "Õ", "Ö", "Ø", "Ù", "Ú", "Û", "Ü", "Ý", "Þ"
  >>

\* the characters above U+00FF that str.upper() changes, each with the
\* characters it gives (one, two or three)
UpperAbove ==
  <<
    <<"U+0101", <<"U+0100">>>>, <<"U+0103", <<"U+0102">>>>,
    <<"U+0105", <<"U+0104">>>>, <<"U+0107", <<"U+0106">>>>,
    <<"U+0109", <<"U+0108">>>>, <<"U+010B", <<"U+010A">>>>,
    <<"U+010D", <<"U+010C">>>>, <<"U+010F", <<"U+010E">>>>,
    <<"U+0111", <<"U+0110">>>>, <<"U+0113", <<"U+0112">>>>,
    <<"U+0115", <<"U+0114">>>>, <<"U+0117", <<"U+0116">>>>,
    <<"U+0119", <<"U+0118">>>>, <<"U+011B", <<"U+011A">>>>,
    <<"U+011D", <<"U+011C">>>>, <<"U+011F", <<"U+011E">>>>,
    <<"U+0121", <<"U+0120">>>>, <<"U+0123", <<"U+0122">>>>,
    <<"U+0125", <<"U+0124">>>>, <<"U+0127", <<"U+0126">>>>,
    <<"U+0129", <<"U+0128">>>>, <<"U+012B", <<"U+012A">>>>,
    <<"U+012D", <<"U+012C">>>>, <<"U+012F", <<"U+012E">>>>,
    <<"U+0131", <<"I">>>>, <<"U+0133", <<"U+0132">>>>,
    <<"U+0135", <<"U+0134">>>>, <<"U+0137", <<"U+0136">>>>,
    <<"U+013A", <<"U+0139">>>>, <<"U+013C", <<"U+013B">>>>,
    <<"U+013E", <<"U+013D">>>>, <<"U+0140", <<"U+013F">>>>,
    <<"U+0142", <<"U+0141">>>>, <<"U+0144", <<"U+0143">>>>,
    <<"U+0146", <<"U+0145">>>>, <<"U+0148", <<"U+0147">>>>,
    <<"U+0149", <<"U+02BC", "N">>>>, <<"U+014B", <<"U+014A">>>>,
    <<"U+014D", <<"U+014C">>>>, <<"U+014F", <<"U+014E">>>>,
    <<"U+0151", <<"U+0150">>>>, <<"U+0153", <<"U+0152">>>>,
    <<"U+0155", <<"U+0154">>>>, <<"U+0157", <<"U+0156">>>>,
    <<"U+0159", <<"U+0158">>>>, <<"U+015B", <<"U+015A">>>>,
    <<"U+015D", <<"U+015C">>>>, <<"U+015F", <<"U+015E">>>>,
    <<"U+0161", <<"U+0160">>>>, <<"U+0163", <<"U+0162">>>>,
    <<"U+0165", <<"U+0164">>>>, <<"U+0167", <<"U+0166">>>>,
    <<"U+0169", <<"U+0168">>>>, <<"U+016B", <<"U+016A">>>>,
    <<"U+016D", <<"U+016C">>>>, <<"U+016F", <<"U+016E">>>>,
    <<"U+0171", <<"U+0170">>>>, <<"U+0173", <<"U+0172">>>>,
    <<"U+0175", <<"U+0174">>>>, <<"U+0177", <<"U+0176">>>>,
    <<"U+017A", <<"U+0179">>>>, <<"U+017C", <<"U+017B">>>>,
    <<"U+017E", <<"U+017D">>>>, <<"U+017F", <<"S">>>>,
    <<"U+0180", <<"U+0243">>>>, <<"U+0183", <<"U+0182">>>>,
    <<"U+0185", <<"U+0184">>>>, <<"U+0188", <<"U+0187">>>>,
    <<"U+018C", <<"U+018B">>>>, <<"U+0192", <<"U+0191">>>>,
    <<"U+0195", <<"U+01F6">>>>, <<"U+0199", <<"U+0198">>>>,
    <<"U+019A", <<"U+023D">>>>, <<"U+019E", <<"U+0220">>>>,
    <<"U+01A1", <<"U+01A0">>>>, <<"U+01A3", <<"U+01A2">>>>,
    <<"U+01A5", <<"U+01A4">>>>, <<"U+01A8", <<"U+01A7">>>>,
    <<"U+01AD", <<"U+01AC">>>>, <<"U+01B0", <<"U+01AF">>>>,
    <<"U+01B4", <<"U+01B3">>>>, <<"U+01B6", <<"U+01B5">>>>,
    <<"U+01B9", <<"U+01B8">>>>, <<"U+01BD", <<"U+01BC">>>>,
    <<"U+01BF", <<"U+01F7">>>>, <<"U+01C5", <<"U+01C4">>>>,
    <<"U+01C6", <<"U+01C4">>>>, <<"U+01C8", <<"U+01C7">>>>,
    <<"U+01C9", <<"U+01C7">>>>, <<"U+01CB", <<"U+01CA">>>>,
    <<"U+01CC", <<"U+01CA">>>>, <<"U+01CE", <<"U+01CD">>>>,
    <<"U+01D0", <<"U+01CF">>>>, <<"U+01D2", <<"U+01D1">>>>,
    <<"U+01D4", <<"U+01D3">>>>, <<"U+01D6", <<"U+01D5">>>>,
    <<"U+01D8", <<"U+01D7">>>>, <<"U+01DA", <<"U+01D9">>>>,
    <<"U+01DC", <<"U+01DB">>>>, <<"U+01DD", <<"U+018E">>>>,
    <<"U+01DF", <<"U+01DE">>>>, <<"U+01E1", <<"U+01E0">>>>,
    <<"U+01E3", <<"U+01E2">>>>, <<"U+01E5", <<"U+01E4">>>>,
    <<"U+01E7", <<"U+01E6">>>>, <<"U+01E9", <<"U+01E8">>>>,
    <<"U+01EB", <<"U+01EA">>>>, <<"U+01ED", <<"U+01EC">>>>,
    <<"U+01EF", <<"U+01EE">>>>, <<"U+01F0", <<"J", "U+030C">>>>,
    <<"U+01F2", <<"U+01F1">>>>, <<"U+01F3", <<"U+01F1">>>>,
    <<"U+01F5", <<"U+01F4">>>>, <<"U+01F9", <<"U+01F8">>>>,
    <<"U+01FB", <<"U+01FA">>>>, <<"U+01FD", <<"U+01FC">>>>,
    <<"U+01FF", <<"U+01FE">>>>, <<"U+0201", <<"U+0200">>>>,
    <<"U+0203", <<"U+0202">>>>, <<"U+0205", <<"U+0204">>>>,
    <<"U+0207", <<"U+0206">>>>, <<"U+0209", <<"U+0208">>>>,
    <<"U+020B", <<"U+020A">>>>, <<"U+020D", <<"U+020C">>>>,
    <<"U+020F", <<"U+020E">>>>, <<"U+0211", <<"U+0210">>>>,
    <<"U+0213", <<"U+0212">>>>, <<"U+0215", <<"U+0214">>>>,
    <<"U+0217", <<"U+0216">>>>, <<"U+0219", <<"U+0218">>>>,
    <<"U+021B", <<"U+021A">>>>, <<"U+021D", <<"U+021C">>>>,
    <<"U+021F", <<"U+021E">>>>, <<"U+0223", <<"U+0222">>>>,
    <<"U+0225", <<"U+0224">>>>, <<"U+0227", <<"U+0226">>>>,
    <<"U+0229", <<"U+0228">>>>, <<"U+022B", <<"U+022A">>>>,
    <<"U+022D", <<"U+022C">>>>, <<"U+022F", <<"U+022E">>>>,
    <<"U+0231", <<"U+0230">>>>, <<"U+0233", <<"U+0232">>>>,
    <<"U+023C", <<"U+023B">>>>, <<"U+023F", <<"U+2C7E">>>>,
    <<"U+0240", <<"U+2C7F">>>>, <<"U+0242", <<"U+0241">>>>,
    <<"U+0247", <<"U+0246">>>>, <<"U+0249", <<"U+0248">>>>,
    <<"U+024B", <<"U+024A">>>>, <<"U+024D", <<"U+024C">>>>,
    <<"U+024F", <<"U+024E">>>>, <<"U+0250", <<"U+2C6F">>>>,
    <<"U+0251", <<"U+2C6D">>>>, <<"U+0252", <<"U+2C70">>>>,
    <<"U+0253", <<"U+0181">>>>, <<"U+0254", <<"U+0186">>>>,
    <<"U+0256", <<"U+0189">>>>, <<"U+0257", <<"U+018A">>>>,
    <<"U+0259", <<"U+018F">>>>, <<"U+025B", <<"U+0190">>>>,
    <<"U+025C", <<"U+A7AB">>>>, <<"U+0260", <<"U+0193">>>>,
    <<"U+0261", <<"U+A7AC">>>>, <<"U+0263", <<"U+0194">>>>,
    <<"U+0265", <<"U+A78D">>>>, <<"U+0266", <<"U+A7AA">>>>,
    <<"U+0268", <<"U+0197">>>>, <<"U+0269", <<"U+0196">>>>,
    <<"U+026A", <<"U+A7AE">>>>, <<"U+026B", <<"U+2C62">>>>,
    <<"U+026C", <<"U+A7AD">>>>, <<"U+026F", <<"U+019C">>>>,
    <<"U+0271", <<"U+2C6E">>>>, <<"U+0272", <<"U+019D">>>>,
    <<"U+0275", <<"U+019F">>>>, <<"U+027D", <<"U+2C64">>>>,
    <<"U+0280", <<"U+01A6">>>>, <<"U+0282", <<"U+A7C5">>>>,
    <<"U+0283", <<"U+01A9">>>>, <<"U+0287", <<"U+A7B1">>>>,
    <<"U+0288", <<"U+01AE">>>>, <<"U+0289", <<"U+0244">>>>,
    <<"U+028A", <<"U+01B1">>>>, <<"U+028B", <<"U+01B2">>>>,
    <<"U+028C", <<"U+0245">>>>, <<"U+0292", <<"U+01B7">>>>,
    <<"U+029D", <<"U+A7B2">>>>, <<"U+029E", <<"U+A7B0">>>>,
    <<"U+0345", <<"U+0399">>>>, <<"U+0371", <<"U+0370">>>>,
    <<"U+0373", <<"U+0372">>>>, <<"U+0377", <<"U+0376">>>>,
    <<"U+037B", <<"U+03FD">>>>, <<"U+037C", <<"U+03FE">>>>,
    <<"U+037D", <<"U+03FF">>>>,
    <<"U+0390", <<"U+0399", "U+0308", "U+0301">>>>,
    <<"U+03AC", <<"U+0386">>>>, <<"U+03AD", <<"U+0388">>>>,
    <<"U+03AE", <<"U+0389">>>>, <<"U+03AF", <<"U+038A">>>>,
    <<"U+03B0", <<"U+03A5", "U+0308", "U+0301">>>>,
    <<"U+03B1", <<"U+0391">>>>, <<"U+03B2", <<"U+0392">>>>,
    <<"U+03B3", <<"U+0393">>>>, <<"U+03B4", <<"U+0394">>>>,
    <<"U+03B5", <<"U+0395">>>>, <<"U+03B6", <<"U+0396">>>>,
    <<"U+03B7", <<"U+0397">>>>, <<"U+03B8", <<"U+0398">>>>,
    <<"U+03B9", <<"U+0399">>>>, <<"U+03BA", <<"U+039A">>>>,
    <<"U+03BB", <<"U+039B">>>>, <<"U+03BC", <<"U+039C">>>>,
    <<"U+03BD", <<"U+039D">>>>, <<"U+03BE", <<"U+039E">>>>,
    <<"U+03BF", <<"U+039F">>>>, <<"U+03C0", <<"U+03A0">>>>,
    <<"U+03C1", <<"U+03A1">>>>, <<"U+03C2", <<"U+03A3">>>>,
    <<"U+03C3", <<"U+03A3">>>>, <<"U+03C4", <<"U+03A4">>>>,
    <<"U+03C5", <<"U+03A5">>>>, <<"U+03C6", <<"U+03A6">>>>,
    <<"U+03C7", <<"U+03A7">>>>, <<"U+03C8", <<"U+03A8">>>>,
    <<"U+03C9", <<"U+03A9">>>>, <<"U+03CA", <<"U+03AA">>>>,
    <<"U+03CB", <<"U+03AB">>>>, <<"U+03CC", <<"U+038C">>>>,
    <<"U+03CD", <<"U+038E">>>>, <<"U+03CE", <<"U+038F">>>>,
    <<"U+03D0", <<"U+0392">>>>, <<"U+03D1", <<"U+0398">>>>,
    <<"U+03D5", <<"U+03A6">>>>, <<"U+03D6", <<"U+03A0">>>>,
    <<"U+03D7", <<"U+03CF">>>>, <<"U+03D9", <<"U+03D8">>>>,
    <<"U+03DB", <<"U+03DA">>>>, <<"U+03DD", <<"U+03DC">>>>,
    <<"U+03DF", <<"U+03DE">>>>, <<"U+03E1", <<"U+03E0">>>>,
    <<"U+03E3", <<"U+03E2">>>>, <<"U+03E5", <<"U+03E4">>>>,
    <<"U+03E7", <<"U+03E6">>>>, <<"U+03E9", <<"U+03E8">>>>,
    <<"U+03EB", <<"U+03EA">>>>, <<"U+03ED", <<"U+03EC">>>>,
    <<"U+03EF", <<"U+03EE">>>>, <<"U+03F0", <<"U+039A">>>>,
    <<"U+03F1", <<"U+03A1">>>>, <<"U+03F2", <<"U+03F9">>>>,
    <<"U+03F3", <<"U+037F">>>>, <<"U+03F5", <<"U+0395">>>>,
    <<"U+03F8", <<"U+03F7">>>>, <<"U+03FB", <<"U+03FA">>>>,
    <<"U+0430", <<"U+0410">>>>, <<"U+0431", <<"U+0411">>>>,
    <<"U+0432", <<"U+0412">>>>, <<"U+0433", <<"U+0413">>>>,
    <<"U+0434", <<"U+0414">>>>, <<"U+0435", <<"U+0415">>>>,
    <<"U+0436", <<"U+0416">>>>, <<"U+0437", <<"U+0417">>>>,
    <<"U+0438", <<"U+0418">>>>, <<"U+0439", <<"U+0419">>>>,
    <<"U+043A", <<"U+041A">>>>, <<"U+043B", <<"U+041B">>>>,
    <<"U+043C", <<"U+041C">>>>, <<"U+043D", <<"U+041D">>>>,
    <<"U+043E", <<"U+041E">>>>, <<"U+043F", <<"U+041F">>>>,
    <<"U+0440", <<"U+0420">>>>, <<"U+0441", <<"U+0421">>>>,
    <<"U+0442", <<"U+0422">>>>, <<"U+0443", <<"U+0423">>>>,
    <<"U+0444", <<"U+0424">>>>, <<"U+0445", <<"U+0425">>>>,
    <<"U+0446", <<"U+0426">>>>, <<"U+0447", <<"U+0427">>>>,
    <<"U+0448", <<"U+0428">>>>, <<"U+0449", <<"U+0429">>>>,
    <<"U+044A", <<"U+042A">>>>, <<"U+044B", <<"U+042B">>>>,
    <<"U+044C", <<"U+042C">>>>, <<"U+044D", <<"U+042D">>>>,
    <<"U+044E", <<"U+042E">>>>, <<"U+044F", <<"U+042F">>>>,
    <<"U+0450", <<"U+0400">>>>, <<"U+0451", <<"U+0401">>>>,
    <<"U+0452", <<"U+0402">>>>, <<"U+0453", <<"U+0403">>>>,
    <<"U+0454", <<"U+0404">>>>, <<"U+0455", <<"U+0405">>>>,
    <<"U+0456", <<"U+0406">>>>, <<"U+0457", <<"U+0407">>>>,
    <<"U+0458", <<"U+0408">>>>, <<"U+0459", <<"U+0409">>>>,
    <<"U+045A", <<"U+040A">>>>, <<"U+045B", <<"U+040B">>>>,
    <<"U+045C", <<"U+040C">>>>, <<"U+045D", <<"U+040D">>>>,
    <<"U+045E", <<"U+040E">>>>, <<"U+045F", <<"U+040F">>>>,
    <<"U+0461", <<"U+0460">>>>, <<"U+0463", <<"U+0462">>>>,
    <<"U+0465", <<"U+0464">>>>, <<"U+0467", <<"U+0466">>>>,
    <<"U+0469", <<"U+0468">>>>, <<"U+046B", <<"U+046A">>>>,
    <<"U+046D", <<"U+046C">>>>, <<"U+046F", <<"U+046E">>>>,
    <<"U+0471", <<"U+0470">>>>, <<"U+0473", <<"U+0472">>>>,
    <<"U+0475", <<"U+0474">>>>, <<"U+0477", <<"U+0476">>>>,
    <<"U+0479", <<"U+0478">>>>, <<"U+047B", <<"U+047A">>>>,
    <<"U+047D", <<"U+047C">>>>, <<"U+047F", <<"U+047E">>>>,
    <<"U+0481", <<"U+0480">>>>, <<"U+048B", <<"U+048A">>>>,
    <<"U+048D", <<"U+048C">>>>, <<"U+048F", <<"U+048E">>>>,
    <<"U+0491", <<"U+0490">>>>, <<"U+0493", <<"U+0492">>>>,
    <<"U+0495", <<"U+0494">>>>, <<"U+0497", <<"U+0496">>>>,
    <<"U+0499", <<"U+0498">>>>, <<"U+049B", <<"U+049A">>>>,
    <<"U+049D", <<"U+049C">>>>, <<"U+049F", <<"U+049E">>>>,
    <<"U+04A1", <<"U+04A0">>>>, <<"U+04A3", <<"U+04A2">>>>,
    <<"U+04A5", <<"U+04A4">>>>, <<"U+04A7", <<"U+04A6">>>>,
    <<"U+04A9", <<"U+04A8">>>>, <<"U+04AB", <<"U+04AA">>>>,
    <<"U+04AD", <<"U+04AC">>>>, <<"U+04AF", <<"U+04AE">>>>,
    <<"U+04B1", <<"U+04B0">>>>, <<"U+04B3", <<"U+04B2">>>>,
    <<"U+04B5", <<"U+04B4">>>>, <<"U+04B7", <<"U+04B6">>>>,
    <<"U+04B9", <<"U+04B8">>>>, <<"U+04BB", <<"U+04BA">>>>,
    <<"U+04BD", <<"U+04BC">>>>, <<"U+04BF", <<"U+04BE">>>>,
    <<"U+04C2", <<"U+04C1">>>>, <<"U+04C4", <<"U+04C3">>>>,
    <<"U+04C6", <<"U+04C5">>>>, <<"U+04C8", <<"U+04C7">>>>,
    <<"U+04CA", <<"U+04C9">>>>, <<"U+04CC", <<"U+04CB">>>>,
    <<"U+04CE", <<"U+04CD">>>>, <<"U+04CF", <<"U+04C0">>>>,
    <<"U+04D1", <<"U+04D0">>>>, <<"U+04D3", <<"U+04D2">>>>,
    <<"U+04D5", <<"U+04D4">>>>, <<"U+04D7", <<"U+04D6">>>>,
    <<"U+04D9", <<"U+04D8">>>>, <<"U+04DB", <<"U+04DA">>>>,
    <<"U+04DD", <<"U+04DC">>>>, <<"U+04DF", <<"U+04DE">>>>,
    <<"U+04E1", <<"U+04E0">>>>, <<"U+04E3", <<"U+04E2">>>>,
    <<"U+04E5", <<"U+04E4">>>>, <<"U+04E7", <<"U+04E6">>>>,
    <<"U+04E9", <<"U+04E8">>>>, <<"U+04EB", <<"U+04EA">>>>,
    <<"U+04ED", <<"U+04EC">>>>, <<"U+04EF", <<"U+04EE">>>>,
    <<"U+04F1", <<"U+04F0">>>>, <<"U+04F3", <<"U+04F2">>>>,
    <<"U+04F5", <<"U+04F4">>>>, <<"U+04F7", <<"U+04F6">>>>,
    <<"U+04F9", <<"U+04F8">>>>, <<"U+04FB", <<"U+04FA">>>>,
    <<"U+04FD", <<"U+04FC">>>>, <<"U+04FF", <<"U+04FE">>>>,
    <<"U+0501", <<"U+0500">>>>, <<"U+0503", <<"U+0502">>>>,
    <<"U+0505", <<"U+0504">>>>, <<"U+0507", <<"U+0506">>>>,
    <<"U+0509", <<"U+0508">>>>, <<"U+050B", <<"U+050A">>>>,
    <<"U+050D", <<"U+050C">>>>, <<"U+050F", <<"U+050E">>>>,
    <<"U+0511", <<"U+0510">>>>, <<"U+0513", <<"U+0512">>>>,
    <<"U+0515", <<"U+0514">>>>, <<"U+0517", <<"U+0516">>>>,
    <<"U+0519", <<"U+0518">>>>, <<"U+051B", <<"U+051A">>>>,
    <<"U+051D", <<"U+051C">>>>, <<"U+051F", <<"U+051E">>>>,
    <<"U+0521", <<"U+0520">>>>, <<"U+0523", <<"U+0522">>>>,
    <<"U+0525", <<"U+0524">>>>, <<"U+0527", <<"U+0526">>>>,
    <<"U+0529", <<"U+0528">>>>, <<"U+052B", <<"U+052A">>>>,
    <<"U+052D", <<"U+052C">>>>, <<"U+052F", <<"U+052E">>>>,
    <<"U+0561", <<"U+0531">>>>, <<"U+0562", <<"U+0532">>>>,
    <<"U+0563", <<"U+0533">>>>, <<"U+0564", <<"U+0534">>>>,
    <<"U+0565", <<"U+0535">>>>, <<"U+0566", <<"U+0536">>>>,
    <<"U+0567", <<"U+0537">>>>, <<"U+0568", <<"U+0538">>>>,
    <<"U+0569", <<"U+0539">>>>, <<"U+056A", <<"U+053A">>>>,
    <<"U+056B", <<"U+053B">>>>, <<"U+056C", <<"U+053C">>>>,
    <<"U+056D", <<"U+053D">>>>, <<"U+056E", <<"U+053E">>>>,
    <<"U+056F", <<"U+053F">>>>, <<"U+0570", <<"U+0540">>>>,
    <<"U+0571", <<"U+0541">>>>, <<"U+0572", <<"U+0542">>>>,
    <<"U+0573", <<"U+0543">>>>, <<"U+0574", <<"U+0544">>>>,
    <<"U+0575", <<"U+0545">>>>, <<"U+0576", <<"U+0546">>>>,
    <<"U+0577", <<"U+0547">>>>, <<"U+0578", <<"U+0548">>>>,
    <<"U+0579", <<"U+0549">>>>, <<"U+057A", <<"U+054A">>>>,
    <<"U+057B", <<"U+054B">>>>, <<"U+057C", <<"U+054C">>>>,
    <<"U+057D", <<"U+054D">>>>, <<"U+057E", <<"U+054E">>>>,
    <<"U+057F", <<"U+054F">>>>, <<"U+0580", <<"U+0550">>>>,
    <<"U+0581", <<"U+0551">>>>, <<"U+0582", <<"U+0552">>>>,
    <<"U+0583", <<"U+0553">>>>, <<"U+0584", <<"U+0554">>>>,
    <<"U+0585", <<"U+0555">>>>, <<"U+0586", <<"U+0556">>>>,
    <<"U+0587", <<"U+0535", "U+0552">>>>, <<"U+10D0", <<"U+1C90">>>>,
    <<"U+10D1", <<"U+1C91">>>>, <<"U+10D2", <<"U+1C92">>>>,
    <<"U+10D3", <<"U+1C93">>>>, <<"U+10D4", <<"U+1C94">>>>,
    <<"U+10D5", <<"U+1C95">>>>, <<"U+10D6", <<"U+1C96">>>>,
    <<"U+10D7", <<"U+1C97">>>>, <<"U+10D8", <<"U+1C98">>>>,
    <<"U+10D9", <<"U+1C99">>>>, <<"U+10DA", <<"U+1C9A">>>>,
    <<"U+10DB", <<"U+1C9B">>>>, <<"U+10DC", <<"U+1C9C">>>>,
    <<"U+10DD", <<"U+1C9D">>>>, <<"U+10DE", <<"U+1C9E">>>>,
    <<"U+10DF", <<"U+1C9F">>>>, <<"U+10E0", <<"U+1CA0">>>>,
    <<"U+10E1", <<"U+1CA1">>>>, <<"U+10E2", <<"U+1CA2">>>>,
    <<"U+10E3", <<"U+1CA3">>>>, <<"U+10E4", <<"U+1CA4">>>>,
    <<"U+10E5", <<"U+1CA5">>>>, <<"U+10E6", <<"U+1CA6">>>>,
    <<"U+10E7", <<"U+1CA7">>>>, <<"U+10E8", <<"U+1CA8">>>>,
    <<"U+10E9", <<"U+1CA9">>>>, <<"U+10EA", <<"U+1CAA">>>>,
    <<"U+10EB", <<"U+1CAB">>>>, <<"U+10EC", <<"U+1CAC">>>>,
    <<"U+10ED", <<"U+1CAD">>>>, <<"U+10EE", <<"U+1CAE">>>>,
    <<"U+10EF", <<"U+1CAF">>>>, <<"U+10F0", <<"U+1CB0">>>>,
    <<"U+10F1", <<"U+1CB1">>>>, <<"U+10F2", <<"U+1CB2">>>>,
    <<"U+10F3", <<"U+1CB3">>>>, <<"U+10F4", <<"U+1CB4">>>>,
    <<"U+10F5", <<"U+1CB5">>>>, <<"U+10F6", <<"U+1CB6">>>>,
    <<"U+10F7", <<"U+1CB7">>>>, <<"U+10F8", <<"U+1CB8">>>>,
    <<"U+10F9", <<"U+1CB9">>>>, <<"U+10FA", <<"U+1CBA">>>>,
    <<"U+10FD", <<"U+1CBD">>>>, <<"U+10FE", <<"U+1CBE">>>>,
    <<"U+10FF", <<"U+1CBF">>>>, <<"U+13F8", <<"U+13F0">>>>,
    <<"U+13F9", <<"U+13F1">>>>, <<"U+13FA", <<"U+13F2">>>>,
    <<"U+13FB", <<"U+13F3">>>>, <<"U+13FC", <<"U+13F4">>>>,
    <<"U+13FD", <<"U+13F5">>>>, <<"U+1C80", <<"U+0412">>>>,
    <<"U+1C81", <<"U+0414">>>>, <<"U+1C82", <<"U+041E">>>>,
    <<"U+1C83", <<"U+0421">>>>, <<"U+1C84", <<"U+0422">>>>,
    <<"U+1C85", <<"U+0422">>>>, <<"U+1C86", <<"U+042A">>>>,
    <<"U+1C87", <<"U+0462">>>>, <<"U+1C88", <<"U+A64A">>>>,
    <<"U+1D79", <<"U+A77D">>>>, <<"U+1D7D", <<"U+2C63">>>>,
    <<"U+1D8E", <<"U+A7C6">>>>, <<"U+1E01", <<"U+1E00">>>>,
    <<"U+1E03", <<"U+1E02">>>>, <<"U+1E05", <<"U+1E04">>>>,
    <<"U+1E07", <<"U+1E06">>>>, <<"U+1E09", <<"U+1E08">>>>,
    <<"U+1E0B", <<"U+1E0A">>>>, <<"U+1E0D", <<"U+1E0C">>>>,
    <<"U+1E0F", <<"U+1E0E">>>>, <<"U+1E11", <<"U+1E10">>>>,
    <<"U+1E13", <<"U+1E12">>>>, <<"U+1E15", <<"U+1E14">>>>,
    <<"U+1E17", <<"U+1E16">>>>, <<"U+1E19", <<"U+1E18">>>>,
    <<"U+1E1B", <<"U+1E1A">>>>, <<"U+1E1D", <<"U+1E1C">>>>,
    <<"U+1E1F", <<"U+1E1E">>>>, <<"U+1E21", <<"U+1E20">>>>,
    <<"U+1E23", <<"U+1E22">>>>, <<"U+1E25", <<"U+1E24">>>>,
    <<"U+1E27", <<"U+1E26">>>>, <<"U+1E29", <<"U+1E28">>>>,
    <<"U+1E2B", <<"U+1E2A">>>>, <<"U+1E2D", <<"U+1E2C">>>>,
    <<"U+1E2F", <<"U+1E2E">>>>, <<"U+1E31", <<"U+1E30">>>>,
    <<"U+1E33", <<"U+1E32">>>>, <<"U+1E35", <<"U+1E34">>>>,
    <<"U+1E37", <<"U+1E36">>>>, <<"U+1E39", <<"U+1E38">>>>,
    <<"U+1E3B", <<"U+1E3A">>>>, <<"U+1E3D", <<"U+1E3C">>>>,
    <<"U+1E3F", <<"U+1E3E">>>>, <<"U+1E41", <<"U+1E40">>>>,
    <<"U+1E43", <<"U+1E42">>>>, <<"U+1E45", <<"U+1E44">>>>,
    <<"U+1E47", <<"U+1E46">>>>, <<"U+1E49", <<"U+1E48">>>>,
    <<"U+1E4B", <<"U+1E4A">>>>, <<"U+1E4D", <<"U+1E4C">>>>,
    <<"U+1E4F", <<"U+1E4E">>>>, <<"U+1E51", <<"U+1E50">>>>,
    <<"U+1E53", <<"U+1E52">>>>, <<"U+1E55", <<"U+1E54">>>>,
    <<"U+1E57", <<"U+1E56">>>>, <<"U+1E59", <<"U+1E58">>>>,
    <<"U+1E5B", <<"U+1E5A">>>>, <<"U+1E5D", <<"U+1E5C">>>>,
    <<"U+1E5F", <<"U+1E5E">>>>, <<"U+1E61", <<"U+1E60">>>>,
    <<"U+1E63", <<"U+1E62">>>>, <<"U+1E65", <<"U+1E64">>>>,
    <<"U+1E67", <<"U+1E66">>>>, <<"U+1E69", <<"U+1E68">>>>,
    <<"U+1E6B", <<"U+1E6A">>>>, <<"U+1E6D", <<"U+1E6C">>>>,
    <<"U+1E6F", <<"U+1E6E">>>>, <<"U+1E71", <<"U+1E70">>>>,
    <<"U+1E73", <<"U+1E72">>>>, <<"U+1E75", <<"U+1E74">>>>,
    <<"U+1E77", <<"U+1E76">>>>, <<"U+1E79", <<"U+1E78">>>>,
    <<"U+1E7B", <<"U+1E7A">>>>, <<"U+1E7D", <<"U+1E7C">>>>,
    <<"U+1E7F", <<"U+1E7E">>>>, <<"U+1E81", <<"U+1E80">>>>,
    <<"U+1E83", <<"U+1E82">>>>, <<"U+1E85", <<"U+1E84">>>>,
    <<"U+1E87", <<"U+1E86">>>>, <<"U+1E89", <<"U+1E88">>>>,
    <<"U+1E8B", <<"U+1E8A">>>>, <<"U+1E8D", <<"U+1E8C">>>>,
    <<"U+1E8F", <<"U+1E8E">>>>, <<"U+1E91", <<"U+1E90">>>>,
    <<"U+1E93", <<"U+1E92">>>>, <<"U+1E95", <<"U+1E94">>>>,
    <<"U+1E96", <<"H", "U+0331">>>>, <<"U+1E97", <<"T", "U+0308">>>>,
    <<"U+1E98", <<"W", "U+030A">>>>, <<"U+1E99", <<"Y", "U+030A">>>>,
    <<"U+1E9A", <<"A", "U+02BE">>>>, <<"U+1E9B", <<"U+1E60">>>>,
    <<"U+1EA1", <<"U+1EA0">>>>, <<"U+1EA3", <<"U+1EA2">>>>,
    <<"U+1EA5", <<"U+1EA4">>>>, <<"U+1EA7", <<"U+1EA6">>>>,
    <<"U+1EA9", <<"U+1EA8">>>>, <<"U+1EAB", <<"U+1EAA">>>>,
    <<"U+1EAD", <<"U+1EAC">>>>, <<"U+1EAF", <<"U+1EAE">>>>,
    <<"U+1EB1", <<"U+1EB0">>>>, <<"U+1EB3", <<"U+1EB2">>>>,
    <<"U+1EB5", <<"U+1EB4">>>>, <<"U+1EB7", <<"U+1EB6">>>>,
    <<"U+1EB9", <<"U+1EB8">>>>, <<"U+1EBB", <<"U+1EBA">>>>,
    <<"U+1EBD", <<"U+1EBC">>>>, <<"U+1EBF", <<"U+1EBE">>>>,
    <<"U+1EC1", <<"U+1EC0">>>>, <<"U+1EC3", <<"U+1EC2">>>>,
    <<"U+1EC5", <<"U+1EC4">>>>, <<"U+1EC7", <<"U+1EC6">>>>,
    <<"U+1EC9", <<"U+1EC8">>>>, <<"U+1ECB", <<"U+1ECA">>>>,
    <<"U+1ECD", <<"U+1ECC">>>>, <<"U+1ECF", <<"U+1ECE">>>>,
    <<"U+1ED1", <<"U+1ED0">>>>, <<"U+1ED3", <<"U+1ED2">>>>,
    <<"U+1ED5", <<"U+1ED4">>>>, <<"U+1ED7", <<"U+1ED6">>>>,
    <<"U+1ED9", <<"U+1ED8">>>>, <<"U+1EDB", <<"U+1EDA">>>>,
    <<"U+1EDD", <<"U+1EDC">>>>, <<"U+1EDF", <<"U+1EDE">>>>,
    <<"U+1EE1", <<"U+1EE0">>>>, <<"U+1EE3", <<"U+1EE2">>>>,
    <<"U+1EE5", <<"U+1EE4">>>>, <<"U+1EE7", <<"U+1EE6">>>>,
    <<"U+1EE9", <<"U+1EE8">>>>, <<"U+1EEB", <<"U+1EEA">>>>,
    <<"U+1EED", <<"U+1EEC">>>>, <<"U+1EEF", <<"U+1EEE">>>>,
    <<"U+1EF1", <<"U+1EF0">>>>, <<"U+1EF3", <<"U+1EF2">>>>,
    <<"U+1EF5", <<"U+1EF4">>>>, <<"U+1EF7", <<"U+1EF6">>>>,
    <<"U+1EF9", <<"U+1EF8">>>>, <<"U+1EFB", <<"U+1EFA">>>>,
    <<"U+1EFD", <<"U+1EFC">>>>, <<"U+1EFF", <<"U+1EFE">>>>,
    <<"U+1F00", <<"U+1F08">>>>, <<"U+1F01", <<"U+1F09">>>>,
    <<"U+1F02", <<"U+1F0A">>>>, <<"U+1F03", <<"U+1F0B">>>>,
    <<"U+1F04", <<"U+1F0C">>>>, <<"U+1F05", <<"U+1F0D">>>>,
    <<"U+1F06", <<"U+1F0E">>>>, <<"U+1F07", <<"U+1F0F">>>>,
    <<"U+1F10", <<"U+1F18">>>>, <<"U+1F11", <<"U+1F19">>>>,
    <<"U+1F12", <<"U+1F1A">>>>, <<"U+1F13", <<"U+1F1B">>>>,
    <<"U+1F14", <<"U+1F1C">>>>, <<"U+1F15", <<"U+1F1D">>>>,
    <<"U+1F20", <<"U+1F28">>>>, <<"U+1F21", <<"U+1F29">>>>,
    <<"U+1F22", <<"U+1F2A">>>>, <<"U+1F23", <<"U+1F2B">>>>,
    <<"U+1F24", <<"U+1F2C">>>>, <<"U+1F25", <<"U+1F2D">>>>,
    <<"U+1F26", <<"U+1F2E">>>>, <<"U+1F27", <<"U+1F2F">>>>,
    <<"U+1F30", <<"U+1F38">>>>, <<"U+1F31", <<"U+1F39">>>>,
    <<"U+1F32", <<"U+1F3A">>>>, <<"U+1F33", <<"U+1F3B">>>>,
    <<"U+1F34", <<"U+1F3C">>>>, <<"U+1F35", <<"U+1F3D">>>>,
    <<"U+1F36", <<"U+1F3E">>>>, <<"U+1F37", <<"U+1F3F">>>>,
    <<"U+1F40", <<"U+1F48">>>>, <<"U+1F41", <<"U+1F49">>>>,
    <<"U+1F42", <<"U+1F4A">>>>, <<"U+1F43", <<"U+1F4B">>>>,
    <<"U+1F44", <<"U+1F4C">>>>, <<"U+1F45", <<"U+1F4D">>>>,
    <<"U+1F50", <<"U+03A5", "U+0313">>>>, <<"U+1F51", <<"U+1F59">>>>,
    <<"U+1F52", <<"U+03A5", "U+0313", "U+0300">>>>,
    <<"U+1F53", <<"U+1F5B">>>>,
    <<"U+1F54", <<"U+03A5", "U+0313", "U+0301">>>>,
    <<"U+1F55", <<"U+1F5D">>>>,
    <<"U+1F56", <<"U+03A5", "U+0313", "U+0342">>>>,
    <<"U+1F57", <<"U+1F5F">>>>, <<"U+1F60", <<"U+1F68">>>>,
    <<"U+1F61", <<"U+1F69">>>>, <<"U+1F62", <<"U+1F6A">>>>,
    <<"U+1F63", <<"U+1F6B">>>>, <<"U+1F64", <<"U+1F6C">>>>,
    <<"U+1F65", <<"U+1F6D">>>>, <<"U+1F66", <<"U+1F6E">>>>,
    <<"U+1F67", <<"U+1F6F">>>>, <<"U+1F70", <<"U+1FBA">>>>,
    <<"U+1F71", <<"U+1FBB">>>>, <<"U+1F72", <<"U+1FC8">>>>,
    <<"U+1F73", <<"U+1FC9">>>>, <<"U+1F74", <<"U+1FCA">>>>,
    <<"U+1F75", <<"U+1FCB">>>>, <<"U+1F76", <<"U+1FDA">>>>,
    <<"U+1F77", <<"U+1FDB">>>>, <<"U+1F78", <<"U+1FF8">>>>,
    <<"U+1F79", <<"U+1FF9">>>>, <<"U+1F7A", <<"U+1FEA">>>>,
    <<"U+1F7B", <<"U+1FEB">>>>, <<"U+1F7C", <<"U+1FFA">>>>,
    <<"U+1F7D", <<"U+1FFB">>>>, <<"U+1F80", <<"U+1F08", "U+0399">>>>,
    <<"U+1F81", <<"U+1F09", "U+0399">>>>,
    <<"U+1F82", <<"U+1F0A", "U+0399">>>>,
    <<"U+1F83", <<"U+1F0B", "U+0399">>>>,
    <<"U+1F84", <<"U+1F0C", "U+0399">>>>,
    <<"U+1F85", <<"U+1F0D", "U+0399">>>>,
    <<"U+1F86", <<"U+1F0E", "U+0399">>>>,
    <<"U+1F87", <<"U+1F0F", "U+0399">>>>,
    <<"U+1F88", <<"U+1F08", "U+0399">>>>,
    <<"U+1F89", <<"U+1F09", "U+0399">>>>,
    <<"U+1F8A", <<"U+1F0A", "U+0399">>>>,
    <<"U+1F8B", <<"U+1F0B", "U+0399">>>>,
    <<"U+1F8C", <<"U+1F0C", "U+0399">>>>,
    <<"U+1F8D", <<"U+1F0D", "U+0399">>>>,
    <<"U+1F8E", <<"U+1F0E", "U+0399">>>>,
    <<"U+1F8F", <<"U+1F0F", "U+0399">>>>,
    <<"U+1F90", <<"U+1F28", "U+0399">>>>,
    <<"U+1F91", <<"U+1F29", "U+0399">>>>,
    <<"U+1F92", <<"U+1F2A", "U+0399">>>>,
    <<"U+1F93", <<"U+1F2B", "U+0399">>>>,
    <<"U+1F94", <<"U+1F2C", "U+0399">>>>,
    <<"U+1F95", <<"U+1F2D", "U+0399">>>>,
    <<"U+1F96", <<"U+1F2E", "U+0399">>>>,
    <<"U+1F97", <<"U+1F2F", "U+0399">>>>,
    <<"U+1F98", <<"U+1F28", "U+0399">>>>,
    <<"U+1F99", <<"U+1F29", "U+0399">>>>,
    <<"U+1F9A", <<"U+1F2A", "U+0399">>>>,
    <<"U+1F9B", <<"U+1F2B", "U+0399">>>>,
    <<"U+1F9C", <<"U+1F2C", "U+0399">>>>,
    <<"U+1F9D", <<"U+1F2D", "U+0399">>>>,
    <<"U+1F9E", <<"U+1F2E", "U+0399">>>>,
    <<"U+1F9F", <<"U+1F2F", "U+0399">>>>,
    <<"U+1FA0", <<"U+1F68", "U+0399">>>>,
    <<"U+1FA1", <<"U+1F69", "U+0399">>>>,
    <<"U+1FA2", <<"U+1F6A", "U+0399">>>>,
    <<"U+1FA3", <<"U+1F6B", "U+0399">>>>,
    <<"U+1FA4", <<"U+1F6C", "U+0399">>>>,
    <<"U+1FA5", <<"U+1F6D", "U+0399">>>>,
    <<"U+1FA6", <<"U+1F6E", "U+0399">>>>,
    <<"U+1FA7", <<"U+1F6F", "U+0399">>>>,
    <<"U+1FA8", <<"U+1F68", "U+0399">>>>,
    <<"U+1FA9", <<"U+1F69", "U+0399">>>>,
    <<"U+1FAA", <<"U+1F6A", "U+0399">>>>,
    <<"U+1FAB", <<"U+1F6B", "U+0399">>>>,
    <<"U+1FAC", <<"U+1F6C", "U+0399">>>>,
    <<"U+1FAD", <<"U+1F6D", "U+0399">>>>,
    <<"U+1FAE", <<"U+1F6E", "U+0399">>>>,
    <<"U+1FAF", <<"U+1F6F", "U+0399">>>>, <<"U+1FB0", <<"U+1FB8">>>>,
    <<"U+1FB1", <<"U+1FB9">>>>, <<"U+1FB2", <<"U+1FBA", "U+0399">>>>,
    <<"U+1FB3", <<"U+0391", "U+0399">>>>,
    <<"U+1FB4", <<"U+0386", "U+0399">>>>,
    <<"U+1FB6", <<"U+0391", "U+0342">>>>,
    <<"U+1FB7", <<"U+0391", "U+0342", "U+0399">>>>,
    <<"U+1FBC", <<"U+0391", "U+0399">>>>, <<"U+1FBE", <<"U+0399">>>>,
    <<"U+1FC2", <<"U+1FCA", "U+0399">>>>,
    <<"U+1FC3", <<"U+0397", "U+0399">>>>,
    <<"U+1FC4", <<"U+0389", "U+0399">>>>,
    <<"U+1FC6", <<"U+0397", "U+0342">>>>,
    <<"U+1FC7", <<"U+0397", "U+0342", "U+0399">>>>,
    <<"U+1FCC", <<"U+0397", "U+0399">>>>, <<"U+1FD0", <<"U+1FD8">>>>,
    <<"U+1FD1", <<"U+1FD9">>>>,
    <<"U+1FD2", <<"U+0399", "U+0308", "U+0300">>>>,
    <<"U+1FD3", <<"U+0399", "U+0308", "U+0301">>>>,
    <<"U+1FD6", <<"U+0399", "U+0342">>>>,
    <<"U+1FD7", <<"U+0399", "U+0308", "U+0342">>>>,
    <<"U+1FE0", <<"U+1FE8">>>>, <<"U+1FE1", <<"U+1FE9">>>>,
    <<"U+1FE2", <<"U+03A5", "U+0308", "U+0300">>>>,
    <<"U+1FE3", <<"U+03A5", "U+0308", "U+0301">>>>,
    <<"U+1FE4", <<"U+03A1", "U+0313">>>>, <<"U+1FE5", <<"U+1FEC">>>>,
    <<"U+1FE6", <<"U+03A5", "U+0342">>>>,
    <<"U+1FE7", <<"U+03A5", "U+0308", "U+0342">>>>,
    <<"U+1FF2", <<"U+1FFA", "U+0399">>>>,
    <<"U+1FF3", <<"U+03A9", "U+0399">>>>,
    <<"U+1FF4", <<"U+038F", "U+0399">>>>,
    <<"U+1FF6", <<"U+03A9", "U+0342">>>>,
    <<"U+1FF7", <<"U+03A9", "U+0342", "U+0399">>>>,
    <<"U+1FFC", <<"U+03A9", "U+0399">>>>, <<"U+214E", <<"U+2132">>>>,
    <<"U+2170", <<"U+2160">>>>, <<"U+2171", <<"U+2161">>>>,
    <<"U+2172", <<"U+2162">>>>, <<"U+2173", <<"U+2163">>>>,
    <<"U+2174", <<"U+2164">>>>, <<"U+2175", <<"U+2165">>>>,
    <<"U+2176", <<"U+2166">>>>, <<"U+2177", <<"U+2167">>>>,
    <<"U+2178", <<"U+2168">>>>, <<"U+2179", <<"U+2169">>>>,
    <<"U+217A", <<"U+216A">>>>, <<"U+217B", <<"U+216B">>>>,
    <<"U+217C", <<"U+216C">>>>, <<"U+217D", <<"U+216D">>>>,
    <<"U+217E", <<"U+216E">>>>, <<"U+217F", <<"U+216F">>>>,
    <<"U+2184", <<"U+2183">>>>, <<"U+24D0", <<"U+24B6">>>>,
    <<"U+24D1", <<"U+24B7">>>>, <<"U+24D2", <<"U+24B8">>>>,
    <<"U+24D3", <<"U+24B9">>>>, <<"U+24D4", <<"U+24BA">>>>,
    <<"U+24D5", <<"U+24BB">>>>, <<"U+24D6", <<"U+24BC">>>>,
    <<"U+24D7", <<"U+24BD">>>>, <<"U+24D8", <<"U+24BE">>>>,
    <<"U+24D9", <<"U+24BF">>>>, <<"U+24DA", <<"U+24C0">>>>,
    <<"U+24DB", <<"U+24C1">>>>, <<"U+24DC", <<"U+24C2">>>>,
    <<"U+24DD", <<"U+24C3">>>>, <<"U+24DE", <<"U+24C4">>>>,
    <<"U+24DF", <<"U+24C5">>>>, <<"U+24E0", <<"U+24C6">>>>,
    <<"U+24E1", <<"U+24C7">>>>, <<"U+24E2", <<"U+24C8">>>>,
    <<"U+24E3", <<"U+24C9">>>>, <<"U+24E4", <<"U+24CA">>>>,
    <<"U+24E5", <<"U+24CB">>>>, <<"U+24E6", <<"U+24CC">>>>,
    <<"U+24E7", <<"U+24CD">>>>, <<"U+24E8", <<"U+24CE">>>>,
    <<"U+24E9", <<"U+24CF">>>>, <<"U+2C30", <<"U+2C00">>>>,
    <<"U+2C31", <<"U+2C01">>>>, <<"U+2C32", <<"U+2C02">>>>,
    <<"U+2C33", <<"U+2C03">>>>, <<"U+2C34", <<"U+2C04">>>>,
    <<"U+2C35", <<"U+2C05">>>>, <<"U+2C36", <<"U+2C06">>>>,
    <<"U+2C37", <<"U+2C07">>>>, <<"U+2C38", <<"U+2C08">>>>,
    <<"U+2C39", <<"U+2C09">>>>, <<"U+2C3A", <<"U+2C0A">>>>,
    <<"U+2C3B", <<"U+2C0B">>>>, <<"U+2C3C", <<"U+2C0C">>>>,
    <<"U+2C3D", <<"U+2C0D">>>>, <<"U+2C3E", <<"U+2C0E">>>>,
    <<"U+2C3F", <<"U+2C0F">>>>, <<"U+2C40", <<"U+2C10">>>>,
    <<"U+2C41", <<"U+2C11">>>>, <<"U+2C42", <<"U+2C12">>>>,
    <<"U+2C43", <<"U+2C13">>>>, <<"U+2C44", <<"U+2C14">>>>,
    <<"U+2C45", <<"U+2C15">>>>, <<"U+2C46", <<"U+2C16">>>>,
    <<"U+2C47", <<"U+2C17">>>>, <<"U+2C48", <<"U+2C18">>>>,
    <<"U+2C49", <<"U+2C19">>>>, <<"U+2C4A", <<"U+2C1A">>>>,
    <<"U+2C4B", <<"U+2C1B">>>>, <<"U+2C4C", <<"U+2C1C">>>>,
    <<"U+2C4D", <<"U+2C1D">>>>, <<"U+2C4E", <<"U+2C1E">>>>,
    <<"U+2C4F", <<"U+2C1F">>>>, <<"U+2C50", <<"U+2C20">>>>,
    <<"U+2C51", <<"U+2C21">>>>, <<"U+2C52", <<"U+2C22">>>>,
    <<"U+2C53", <<"U+2C23">>>>, <<"U+2C54", <<"U+2C24">>>>,
    <<"U+2C55", <<"U+2C25">>>>, <<"U+2C56", <<"U+2C26">>>>,
    <<"U+2C57", <<"U+2C27">>>>, <<"U+2C58", <<"U+2C28">>>>,
    <<"U+2C59", <<"U+2C29">>>>, <<"U+2C5A", <<"U+2C2A">>>>,
    <<"U+2C5B", <<"U+2C2B">>>>, <<"U+2C5C", <<"U+2C2C">>>>,
    <<"U+2C5D", <<"U+2C2D">>>>, <<"U+2C5E", <<"U+2C2E">>>>,
    <<"U+2C5F", <<"U+2C2F">>>>, <<"U+2C61", <<"U+2C60">>>>,
    <<"U+2C65", <<"U+023A">>>>, <<"U+2C66", <<"U+023E">>>>,
    <<"U+2C68", <<"U+2C67">>>>, <<"U+2C6A", <<"U+2C69">>>>,
    <<"U+2C6C", <<"U+2C6B">>>>, <<"U+2C73", <<"U+2C72">>>>,
    <<"U+2C76", <<"U+2C75">>>>, <<"U+2C81", <<"U+2C80">>>>,
    <<"U+2C83", <<"U+2C82">>>>, <<"U+2C85", <<"U+2C84">>>>,
    <<"U+2C87", <<"U+2C86">>>>, <<"U+2C89", <<"U+2C88">>>>,
    <<"U+2C8B", <<"U+2C8A">>>>, <<"U+2C8D", <<"U+2C8C">>>>,
    <<"U+2C8F", <<"U+2C8E">>>>, <<"U+2C91", <<"U+2C90">>>>,
    <<"U+2C93", <<"U+2C92">>>>, <<"U+2C95", <<"U+2C94">>>>,
    <<"U+2C97", <<"U+2C96">>>>, <<"U+2C99", <<"U+2C98">>>>,
    <<"U+2C9B", <<"U+2C9A">>>>, <<"U+2C9D", <<"U+2C9C">>>>,
    <<"U+2C9F", <<"U+2C9E">>>>, <<"U+2CA1", <<"U+2CA0">>>>,
    <<"U+2CA3", <<"U+2CA2">>>>, <<"U+2CA5", <<"U+2CA4">>>>,
    <<"U+2CA7", <<"U+2CA6">>>>, <<"U+2CA9", <<"U+2CA8">>>>,
    <<"U+2CAB", <<"U+2CAA">>>>, <<"U+2CAD", <<"U+2CAC">>>>,
    <<"U+2CAF", <<"U+2CAE">>>>, <<"U+2CB1", <<"U+2CB0">>>>,
    <<"U+2CB3", <<"U+2CB2">>>>, <<"U+2CB5", <<"U+2CB4">>>>,
    <<"U+2CB7", <<"U+2CB6">>>>, <<"U+2CB9", <<"U+2CB8">>>>,
    <<"U+2CBB", <<"U+2CBA">>>>, <<"U+2CBD", <<"U+2CBC">>>>,
    <<"U+2CBF", <<"U+2CBE">>>>, <<"U+2CC1", <<"U+2CC0">>>>,
    <<"U+2CC3", <<"U+2CC2">>>>, <<"U+2CC5", <<"U+2CC4">>>>,
    <<"U+2CC7", <<"U+2CC6">>>>, <<"U+2CC9", <<"U+2CC8">>>>,
    <<"U+2CCB", <<"U+2CCA">>>>, <<"U+2CCD", <<"U+2CCC">>>>,
    <<"U+2CCF", <<"U+2CCE">>>>, <<"U+2CD1", <<"U+2CD0">>>>,
    <<"U+2CD3", <<"U+2CD2">>>>, <<"U+2CD5", <<"U+2CD4">>>>,
    <<"U+2CD7", <<"U+2CD6">>>>, <<"U+2CD9", <<"U+2CD8">>>>,
    <<"U+2CDB", <<"U+2CDA">>>>, <<"U+2CDD", <<"U+2CDC">>>>,
    <<"U+2CDF", <<"U+2CDE">>>>, <<"U+2CE1", <<"U+2CE0">>>>,
    <<"U+2CE3", <<"U+2CE2">>>>, <<"U+2CEC", <<"U+2CEB">>>>,
    <<"U+2CEE", <<"U+2CED">>>>, <<"U+2CF3", <<"U+2CF2">>>>,
    <<"U+2D00", <<"U+10A0">>>>, <<"U+2D01", <<"U+10A1">>>>,
    <<"U+2D02", <<"U+10A2">>>>, <<"U+2D03", <<"U+10A3">>>>,
    <<"U+2D04", <<"U+10A4">>>>, <<"U+2D05", <<"U+10A5">>>>,
    <<"U+2D06", <<"U+10A6">>>>, <<"U+2D07", <<"U+10A7">>>>,
    <<"U+2D08", <<"U+10A8">>>>, <<"U+2D09", <<"U+10A9">>>>,
    <<"U+2D0A", <<"U+10AA">>>>, <<"U+2D0B", <<"U+10AB">>>>,
    <<"U+2D0C", <<"U+10AC">>>>, <<"U+2D0D", <<"U+10AD">>>>,
    <<"U+2D0E", <<"U+10AE">>>>, <<"U+2D0F", <<"U+10AF">>>>,
    <<"U+2D10", <<"U+10B0">>>>, <<"U+2D11", <<"U+10B1">>>>,
    <<"U+2D12", <<"U+10B2">>>>, <<"U+2D13", <<"U+10B3">>>>,
    <<"U+2D14", <<"U+10B4">>>>, <<"U+2D15", <<"U+10B5">>>>,
    <<"U+2D16", <<"U+10B6">>>>, <<"U+2D17", <<"U+10B7">>>>,
    <<"U+2D18", <<"U+10B8">>>>, <<"U+2D19", <<"U+10B9">>>>,
    <<"U+2D1A", <<"U+10BA">>>>, <<"U+2D1B", <<"U+10BB">>>>,
    <<"U+2D1C", <<"U+10BC">>>>, <<"U+2D1D", <<"U+10BD">>>>,
    <<"U+2D1E", <<"U+10BE">>>>, <<"U+2D1F", <<"U+10BF">>>>,
    <<"U+2D20", <<"U+10C0">>>>, <<"U+2D21", <<"U+10C1">>>>,
    <<"U+2D22", <<"U+10C2">>>>, <<"U+2D23", <<"U+10C3">>>>,
    <<"U+2D24", <<"U+10C4">>>>, <<"U+2D25", <<"U+10C5">>>>,
    <<"U+2D27", <<"U+10C7">>>>, <<"U+2D2D", <<"U+10CD">>>>,
    <<"U+A641", <<"U+A640">>>>, <<"U+A643", <<"U+A642">>>>,
    <<"U+A645", <<"U+A644">>>>, <<"U+A647", <<"U+A646">>>>,
    <<"U+A649", <<"U+A648">>>>, <<"U+A64B", <<"U+A64A">>>>,
    <<"U+A64D", <<"U+A64C">>>>, <<"U+A64F", <<"U+A64E">>>>,
    <<"U+A651", <<"U+A650">>>>, <<"U+A653", <<"U+A652">>>>,
    <<"U+A655", <<"U+A654">>>>, <<"U+A657", <<"U+A656">>>>,
    <<"U+A659", <<"U+A658">>>>, <<"U+A65B", <<"U+A65A">>>>,
    <<"U+A65D", <<"U+A65C">>>>, <<"U+A65F", <<"U+A65E">>>>,
    <<"U+A661", <<"U+A660">>>>, <<"U+A663", <<"U+A662">>>>,
    <<"U+A665", <<"U+A664">>>>, <<"U+A667", <<"U+A666">>>>,
    <<"U+A669", <<"U+A668">>>>, <<"U+A66B", <<"U+A66A">>>>,
    <<"U+A66D", <<"U+A66C">>>>, <<"U+A681", <<"U+A680">>>>,
    <<"U+A683", <<"U+A682">>>>, <<"U+A685", <<"U+A684">>>>,
    <<"U+A687", <<"U+A686">>>>, <<"U+A689", <<"U+A688">>>>,
    <<"U+A68B", <<"U+A68A">>>>, <<"U+A68D", <<"U+A68C">>>>,
    <<"U+A68F", <<"U+A68E">>>>, <<"U+A691", <<"U+A690">>>>,
    <<"U+A693", <<"U+A692">>>>, <<"U+A695", <<"U+A694">>>>,
    <<"U+A697", <<"U+A696">>>>, <<"U+A699", <<"U+A698">>>>,
    <<"U+A69B", <<"U+A69A">>>>, <<"U+A723", <<"U+A722">>>>,
    <<"U+A725", <<"U+A724">>>>, <<"U+A727", <<"U+A726">>>>,
    <<"U+A729", <<"U+A728">>>>, <<"U+A72B", <<"U+A72A">>>>,
    <<"U+A72D", <<"U+A72C">>>>, <<"U+A72F", <<"U+A72E">>>>,
    <<"U+A733", <<"U+A732">>>>, <<"U+A735", <<"U+A734">>>>,
    <<"U+A737", <<"U+A736">>>>, <<"U+A739", <<"U+A738">>>>,
    <<"U+A73B", <<"U+A73A">>>>, <<"U+A73D", <<"U+A73C">>>>,
    <<"U+A73F", <<"U+A73E">>>>, <<"U+A741", <<"U+A740">>>>,
    <<"U+A743", <<"U+A742">>>>, <<"U+A745", <<"U+A744">>>>,
    <<"U+A747", <<"U+A746">>>>, <<"U+A749", <<"U+A748">>>>,
    <<"U+A74B", <<"U+A74A">>>>, <<"U+A74D", <<"U+A74C">>>>,
    <<"U+A74F", <<"U+A74E">>>>, <<"U+A751", <<"U+A750">>>>,
    <<"U+A753", <<"U+A752">>>>, <<"U+A755", <<"U+A754">>>>,
    <<"U+A757", <<"U+A756">>>>, <<"U+A759", <<"U+A758">>>>,
    <<"U+A75B", <<"U+A75A">>>>, <<"U+A75D", <<"U+A75C">>>>,
    <<"U+A75F", <<"U+A75E">>>>, <<"U+A761", <<"U+A760">>>>,
    <<"U+A763", <<"U+A762">>>>, <<"U+A765", <<"U+A764">>>>,
    <<"U+A767", <<"U+A766">>>>, <<"U+A769", <<"U+A768">>>>,
    <<"U+A76B", <<"U+A76A">>>>, <<"U+A76D", <<"U+A76C">>>>,
    <<"U+A76F", <<"U+A76E">>>>, <<"U+A77A", <<"U+A779">>>>,
    <<"U+A77C", <<"U+A77B">>>>, <<"U+A77F", <<"U+A77E">>>>,
    <<"U+A781", <<"U+A780">>>>, <<"U+A783", <<"U+A782">>>>,
    <<"U+A785", <<"U+A784">>>>, <<"U+A787", <<"U+A786">>>>,
    <<"U+A78C", <<"U+A78B">>>>, <<"U+A791", <<"U+A790">>>>,
    <<"U+A793", <<"U+A792">>>>, <<"U+A794", <<"U+A7C4">>>>,
    <<"U+A797", <<"U+A796">>>>, <<"U+A799", <<"U+A798">>>>,
    <<"U+A79B", <<"U+A79A">>>>, <<"U+A79D", <<"U+A79C">>>>,
    <<"U+A79F", <<"U+A79E">>>>, <<"U+A7A1", <<"U+A7A0">>>>,
    <<"U+A7A3", <<"U+A7A2">>>>, <<"U+A7A5", <<"U+A7A4">>>>,
    <<"U+A7A7", <<"U+A7A6">>>>, <<"U+A7A9", <<"U+A7A8">>>>,
    <<"U+A7B5", <<"U+A7B4">>>>, <<"U+A7B7", <<"U+A7B6">>>>,
    <<"U+A7B9", <<"U+A7B8">>>>, <<"U+A7BB", <<"U+A7BA">>>>,
    <<"U+A7BD", <<"U+A7BC">>>>, <<"U+A7BF", <<"U+A7BE">>>>,
    <<"U+A7C1", <<"U+A7C0">>>>, <<"U+A7C3", <<"U+A7C2">>>>,
    <<"U+A7C8", <<"U+A7C7">>>>, <<"U+A7CA", <<"U+A7C9">>>>,
    <<"U+A7D1", <<"U+A7D0">>>>, <<"U+A7D7", <<"U+A7D6">>>>,
    <<"U+A7D9", <<"U+A7D8">>>>, <<"U+A7F6", <<"U+A7F5">>>>,
    <<"U+AB53", <<"U+A7B3">>>>, <<"U+AB70", <<"U+13A0">>>>,
    <<"U+AB71", <<"U+13A1">>>>, <<"U+AB72", <<"U+13A2">>>>,
    <<"U+AB73", <<"U+13A3">>>>, <<"U+AB74", <<"U+13A4">>>>,
    <<"U+AB75", <<"U+13A5">>>>, <<"U+AB76", <<"U+13A6">>>>,
    <<"U+AB77", <<"U+13A7">>>>, <<"U+AB78", <<"U+13A8">>>>,
    <<"U+AB79", <<"U+13A9">>>>, <<"U+AB7A", <<"U+13AA">>>>,
    <<"U+AB7B", <<"U+13AB">>>>, <<"U+AB7C", <<"U+13AC">>>>,
    <<"U+AB7D", <<"U+13AD">>>>, <<"U+AB7E", <<"U+13AE">>>>,
    <<"U+AB7F", <<"U+13AF">>>>, <<"U+AB80", <<"U+13B0">>>>,
    <<"U+AB81", <<"U+13B1">>>>, <<"U+AB82", <<"U+13B2">>>>,
    <<"U+AB83", <<"U+13B3">>>>, <<"U+AB84", <<"U+13B4">>>>,
    <<"U+AB85", <<"U+13B5">>>>, <<"U+AB86", <<"U+13B6">>>>,
    <<"U+AB87", <<"U+13B7">>>>, <<"U+AB88", <<"U+13B8">>>>,
    <<"U+AB89", <<"U+13B9">>>>, <<"U+AB8A", <<"U+13BA">>>>,
    <<"U+AB8B", <<"U+13BB">>>>, <<"U+AB8C", <<"U+13BC">>>>,
    <<"U+AB8D", <<"U+13BD">>>>, <<"U+AB8E", <<"U+13BE">>>>,
    <<"U+AB8F", <<"U+13BF">>>>, <<"U+AB90", <<"U+13C0">>>>,
    <<"U+AB91", <<"U+13C1">>>>, <<"U+AB92", <<"U+13C2">>>>,
    <<"U+AB93", <<"U+13C3">>>>, <<"U+AB94", <<"U+13C4">>>>,
    <<"U+AB95", <<"U+13C5">>>>, <<"U+AB96", <<"U+13C6">>>>,
    <<"U+AB97", <<"U+13C7">>>>, <<"U+AB98", <<"U+13C8">>>>,
    <<"U+AB99", <<"U+13C9">>>>, <<"U+AB9A", <<"U+13CA">>>>,
    <<"U+AB9B", <<"U+13CB">>>>, <<"U+AB9C", <<"U+13CC">>>>,
    <<"U+AB9D", <<"U+13CD">>>>, <<"U+AB9E", <<"U+13CE">>>>,
    <<"U+AB9F", <<"U+13CF">>>>, <<"U+ABA0", <<"U+13D0">>>>,
    <<"U+ABA1", <<"U+13D1">>>>, <<"U+ABA2", <<"U+13D2">>>>,
    <<"U+ABA3", <<"U+13D3">>>>, <<"U+ABA4", <<"U+13D4">>>>,
    <<"U+ABA5", <<"U+13D5">>>>, <<"U+ABA6", <<"U+13D6">>>>,
    <<"U+ABA7", <<"U+13D7">>>>, <<"U+ABA8", <<"U+13D8">>>>,
    <<"U+ABA9", <<"U+13D9">>>>, <<"U+ABAA", <<"U+13DA">>>>,
    <<"U+ABAB", <<"U+13DB">>>>, <<"U+ABAC", <<"U+13DC">>>>,
    <<"U+ABAD", <<"U+13DD">>>>, <<"U+ABAE", <<"U+13DE">>>>,
    <<"U+ABAF", <<"U+13DF">>>>, <<"U+ABB0", <<"U+13E0">>>>,
    <<"U+ABB1", <<"U+13E1">>>>, <<"U+ABB2", <<"U+13E2">>>>,
    <<"U+ABB3", <<"U+13E3">>>>, <<"U+ABB4", <<"U+13E4">>>>,
    <<"U+ABB5", <<"U+13E5">>>>, <<"U+ABB6", <<"U+13E6">>>>,
    <<"U+ABB7", <<"U+13E7">>>>, <<"U+ABB8", <<"U+13E8">>>>,
    <<"U+ABB9", <<"U+13E9">>>>, <<"U+ABBA", <<"U+13EA">>>>,
    <<"U+ABBB", <<"U+13EB">>>>, <<"U+ABBC", <<"U+13EC">>>>,
    <<"U+ABBD", <<"U+13ED">>>>, <<"U+ABBE", <<"U+13EE">>>>,
    <<"U+ABBF", <<"U+13EF">>>>, <<"U+FB00", <<"F", "F">>>>,
    <<"U+FB01", <<"F", "I">>>>, <<"U+FB02", <<"F", "L">>>>,
    <<"U+FB03", <<"F", "F", "I">>>>, <<"U+FB04", <<"F", "F", "L">>>>,
    <<"U+FB05", <<"S", "T">>>>, <<"U+FB06", <<"S", "T">>>>,
    <<"U+FB13", <<"U+0544", "U+0546">>>>,
    <<"U+FB14", <<"U+0544", "U+0535">>>>,
    <<"U+FB15", <<"U+0544", "U+053B">>>>,
    <<"U+FB16", <<"U+054E", "U+0546">>>>,
    <<"U+FB17", <<"U+0544", "U+053D">>>>, <<"U+FF41", <<"U+FF21">>>>,
    <<"U+FF42", <<"U+FF22">>>>, <<"U+FF43", <<"U+FF23">>>>,
    <<"U+FF44", <<"U+FF24">>>>, <<"U+FF45", <<"U+FF25">>>>,
    <<"U+FF46", <<"U+FF26">>>>, <<"U+FF47", <<"U+FF27">>>>,
    <<"U+FF48", <<"U+FF28">>>>, <<"U+FF49", <<"U+FF29">>>>,
    <<"U+FF4A", <<"U+FF2A">>>>, <<"U+FF4B", <<"U+FF2B">>>>,
    <<"U+FF4C", <<"U+FF2C">>>>, <<"U+FF4D", <<"U+FF2D">>>>,
    <<"U+FF4E", <<"U+FF2E">>>>, <<"U+FF4F", <<"U+FF2F">>>>,
    <<"U+FF50", <<"U+FF30">>>>, <<"U+FF51", <<"U+FF31">>>>,
    <<"U+FF52", <<"U+FF32">>>>, <<"U+FF53", <<"U+FF33">>>>,
    <<"U+FF54", <<"U+FF34">>>>, <<"U+FF55", <<"U+FF35">>>>,
    <<"U+FF56", <<"U+FF36">>>>, <<"U+FF57", <<"U+FF37">>>>,
    <<"U+FF58", <<"U+FF38">>>>, <<"U+FF59", <<"U+FF39">>>>,
    <<"U+FF5A", <<"U+FF3A">>>>, <<"U+10428", <<"U+10400">>>>,
    <<"U+10429", <<"U+10401">>>>, <<"U+1042A", <<"U+10402">>>>,
    <<"U+1042B", <<"U+10403">>>>, <<"U+1042C", <<"U+10404">>>>,
    <<"U+1042D", <<"U+10405">>>>, <<"U+1042E", <<"U+10406">>>>,
    <<"U+1042F", <<"U+10407">>>>, <<"U+10430", <<"U+10408">>>>,
    <<"U+10431", <<"U+10409">>>>, <<"U+10432", <<"U+1040A">>>>,
    <<"U+10433", <<"U+1040B">>>>, <<"U+10434", <<"U+1040C">>>>,
    <<"U+10435", <<"U+1040D">>>>, <<"U+10436", <<"U+1040E">>>>,
    <<"U+10437", <<"U+1040F">>>>, <<"U+10438", <<"U+10410">>>>,
    <<"U+10439", <<"U+10411">>>>, <<"U+1043A", <<"U+10412">>>>,
    <<"U+1043B", <<"U+10413">>>>, <<"U+1043C", <<"U+10414">>>>,
    <<"U+1043D", <<"U+10415">>>>, <<"U+1043E", <<"U+10416">>>>,
    <<"U+1043F", <<"U+10417">>>>, <<"U+10440", <<"U+10418">>>>,
    <<"U+10441", <<"U+10419">>>>, <<"U+10442", <<"U+1041A">>>>,
    <<"U+10443", <<"U+1041B">>>>, <<"U+10444", <<"U+1041C">>>>,
    <<"U+10445", <<"U+1041D">>>>, <<"U+10446", <<"U+1041E">>>>,
    <<"U+10447", <<"U+1041F">>>>, <<"U+10448", <<"U+10420">>>>,
    <<"U+10449", <<"U+10421">>>>, <<"U+1044A", <<"U+10422">>>>,
    <<"U+1044B", <<"U+10423">>>>, <<"U+1044C", <<"U+10424">>>>,
    <<"U+1044D", <<"U+10425">>>>, <<"U+1044E", <<"U+10426">>>>,
    <<"U+1044F", <<"U+10427">>>>, <<"U+104D8", <<"U+104B0">>>>,
    <<"U+104D9", <<"U+104B1">>>>, <<"U+104DA", <<"U+104B2">>>>,
    <<"U+104DB", <<"U+104B3">>>>, <<"U+104DC", <<"U+104B4">>>>,
    <<"U+104DD", <<"U+104B5">>>>, <<"U+104DE", <<"U+104B6">>>>,
    <<"U+104DF", <<"U+104B7">>>>, <<"U+104E0", <<"U+104B8">>>>,
    <<"U+104E1", <<"U+104B9">>>>, <<"U+104E2", <<"U+104BA">>>>,
    <<"U+104E3", <<"U+104BB">>>>, <<"U+104E4", <<"U+104BC">>>>,
    <<"U+104E5", <<"U+104BD">>>>, <<"U+104E6", <<"U+104BE">>>>,
    <<"U+104E7", <<"U+104BF">>>>, <<"U+104E8", <<"U+104C0">>>>,
    <<"U+104E9", <<"U+104C1">>>>, <<"U+104EA", <<"U+104C2">>>>,
    <<"U+104EB", <<"U+104C3">>>>, <<"U+104EC", <<"U+104C4">>>>,
    <<"U+104ED", <<"U+104C5">>>>, <<"U+104EE", <<"U+104C6">>>>,
    <<"U+104EF", <<"U+104C7">>>>, <<"U+104F0", <<"U+104C8">>>>,
    <<"U+104F1", <<"U+104C9">>>>, <<"U+104F2", <<"U+104CA">>>>,
    <<"U+104F3", <<"U+104CB">>>>, <<"U+104F4", <<"U+104CC">>>>,
    <<"U+104F5", <<"U+104CD">>>>, <<"U+104F6", <<"U+104CE">>>>,
    <<"U+104F7", <<"U+104CF">>>>, <<"U+104F8", <<"U+104D0">>>>,
    <<"U+104F9", <<"U+104D1">>>>, <<"U+104FA", <<"U+104D2">>>>,
    <<"U+104FB", <<"U+104D3">>>>, <<"U+10597", <<"U+10570">>>>,
    <<"U+10598", <<"U+10571">>>>, <<"U+10599", <<"U+10572">>>>,
    <<"U+1059A", <<"U+10573">>>>, <<"U+1059B", <<"U+10574">>>>,
    <<"U+1059C", <<"U+10575">>>>, <<"U+1059D", <<"U+10576">>>>,
    <<"U+1059E", <<"U+10577">>>>, <<"U+1059F", <<"U+10578">>>>,
    <<"U+105A0", <<"U+10579">>>>, <<"U+105A1", <<"U+1057A">>>>,
    <<"U+105A3", <<"U+1057C">>>>, <<"U+105A4", <<"U+1057D">>>>,
    <<"U+105A5", <<"U+1057E">>>>, <<"U+105A6", <<"U+1057F">>>>,
    <<"U+105A7", <<"U+10580">>>>, <<"U+105A8", <<"U+10581">>>>,
    <<"U+105A9", <<"U+10582">>>>, <<"U+105AA", <<"U+10583">>>>,
    <<"U+105AB", <<"U+10584">>>>, <<"U+105AC", <<"U+10585">>>>,
    <<"U+105AD", <<"U+10586">>>>, <<"U+105AE", <<"U+10587">>>>,
    <<"U+105AF", <<"U+10588">>>>, <<"U+105B0", <<"U+10589">>>>,
    <<"U+105B1", <<"U+1058A">>>>, <<"U+105B3", <<"U+1058C">>>>,
    <<"U+105B4", <<"U+1058D">>>>, <<"U+105B5", <<"U+1058E">>>>,
    <<"U+105B6", <<"U+1058F">>>>, <<"U+105B7", <<"U+10590">>>>,
    <<"U+105B8", <<"U+10591">>>>, <<"U+105B9", <<"U+10592">>>>,
    <<"U+105BB", <<"U+10594">>>>, <<"U+105BC", <<"U+10595">>>>,
    <<"U+10CC0", <<"U+10C80">>>>, <<"U+10CC1", <<"U+10C81">>>>,
    <<"U+10CC2", <<"U+10C82">>>>, <<"U+10CC3", <<"U+10C83">>>>,
    <<"U+10CC4", <<"U+10C84">>>>, <<"U+10CC5", <<"U+10C85">>>>,
    <<"U+10CC6", <<"U+10C86">>>>, <<"U+10CC7", <<"U+10C87">>>>,
    <<"U+10CC8", <<"U+10C88">>>>, <<"U+10CC9", <<"U+10C89">>>>,
    <<"U+10CCA", <<"U+10C8A">>>>, <<"U+10CCB", <<"U+10C8B">>>>,
    <<"U+10CCC", <<"U+10C8C">>>>, <<"U+10CCD", <<"U+10C8D">>>>,
    <<"U+10CCE", <<"U+10C8E">>>>, <<"U+10CCF", <<"U+10C8F">>>>,
    <<"U+10CD0", <<"U+10C90">>>>, <<"U+10CD1", <<"U+10C91">>>>,
    <<"U+10CD2", <<"U+10C92">>>>, <<"U+10CD3", <<"U+10C93">>>>,
    <<"U+10CD4", <<"U+10C94">>>>, <<"U+10CD5", <<"U+10C95">>>>,
    <<"U+10CD6", <<"U+10C96">>>>, <<"U+10CD7", <<"U+10C97">>>>,
    <<"U+10CD8", <<"U+10C98">>>>, <<"U+10CD9", <<"U+10C99">>>>,
    <<"U+10CDA", <<"U+10C9A">>>>, <<"U+10CDB", <<"U+10C9B">>>>,
    <<"U+10CDC", <<"U+10C9C">>>>, <<"U+10CDD", <<"U+10C9D">>>>,
    <<"U+10CDE", <<"U+10C9E">>>>, <<"U+10CDF", <<"U+10C9F">>>>,
    <<"U+10CE0", <<"U+10CA0">>>>, <<"U+10CE1", <<"U+10CA1">>>>,
    <<"U+10CE2", <<"U+10CA2">>>>, <<"U+10CE3", <<"U+10CA3">>>>,
    <<"U+10CE4", <<"U+10CA4">>>>, <<"U+10CE5", <<"U+10CA5">>>>,
    <<"U+10CE6", <<"U+10CA6">>>>, <<"U+10CE7", <<"U+10CA7">>>>,
    <<"U+10CE8", <<"U+10CA8">>>>, <<"U+10CE9", <<"U+10CA9">>>>,
    <<"U+10CEA", <<"U+10CAA">>>>, <<"U+10CEB", <<"U+10CAB">>>>,
    <<"U+10CEC", <<"U+10CAC">>>>, <<"U+10CED", <<"U+10CAD">>>>,
    <<"U+10CEE", <<"U+10CAE">>>>, <<"U+10CEF", <<"U+10CAF">>>>,
    <<"U+10CF0", <<"U+10CB0">>>>, <<"U+10CF1", <<"U+10CB1">>>>,
    <<"U+10CF2", <<"U+10CB2">>>>, <<"U+118C0", <<"U+118A0">>>>,
    <<"U+118C1", <<"U+118A1">>>>, <<"U+118C2", <<"U+118A2">>>>,
    <<"U+118C3", <<"U+118A3">>>>, <<"U+118C4", <<"U+118A4">>>>,
    <<"U+118C5", <<"U+118A5">>>>, <<"U+118C6", <<"U+118A6">>>>,
    <<"U+118C7", <<"U+118A7">>>>, <<"U+118C8", <<"U+118A8">>>>,
    <<"U+118C9", <<"U+118A9">>>>, <<"U+118CA", <<"U+118AA">>>>,
    <<"U+118CB", <<"U+118AB">>>>, <<"U+118CC", <<"U+118AC">>>>,
    <<"U+118CD", <<"U+118AD">>>>, <<"U+118CE", <<"U+118AE">>>>,
    <<"U+118CF", <<"U+118AF">>>>, <<"U+118D0", <<"U+118B0">>>>,
    <<"U+118D1", <<"U+118B1">>>>, <<"U+118D2", <<"U+118B2">>>>,
    <<"U+118D3", <<"U+118B3">>>>, <<"U+118D4", <<"U+118B4">>>>,
    <<"U+118D5", <<"U+118B5">>>>, <<"U+118D6", <<"U+118B6">>>>,
    <<"U+118D7", <<"U+118B7">>>>, <<"U+118D8", <<"U+118B8">>>>,
    <<"U+118D9", <<"U+118B9">>>>, <<"U+118DA", <<"U+118BA">>>>,
    <<"U+118DB", <<"U+118BB">>>>, <<"U+118DC", <<"U+118BC">>>>,
    <<"U+118DD", <<"U+118BD">>>>, <<"U+118DE", <<"U+118BE">>>>,
    <<"U+118DF", <<"U+118BF">>>>, <<"U+16E60", <<"U+16E40">>>>,
    <<"U+16E61", <<"U+16E41">>>>, <<"U+16E62", <<"U+16E42">>>>,
    <<"U+16E63", <<"U+16E43">>>>, <<"U+16E64", <<"U+16E44">>>>,
    <<"U+16E65", <<"U+16E45">>>>, <<"U+16E66", <<"U+16E46">>>>,
    <<"U+16E67", <<"U+16E47">>>>, <<"U+16E68", <<"U+16E48">>>>,
    <<"U+16E69", <<"U+16E49">>>>, <<"U+16E6A", <<"U+16E4A">>>>,
    <<"U+16E6B", <<"U+16E4B">>>>, <<"U+16E6C", <<"U+16E4C">>>>,
    <<"U+16E6D", <<"U+16E4D">>>>, <<"U+16E6E", <<"U+16E4E">>>>,
    <<"U+16E6F", <<"U+16E4F">>>>, <<"U+16E70", <<"U+16E50">>>>,
    <<"U+16E71", <<"U+16E51">>>>, <<"U+16E72", <<"U+16E52">>>>,
    <<"U+16E73", <<"U+16E53">>>>, <<"U+16E74", <<"U+16E54">>>>,
    <<"U+16E75", <<"U+16E55">>>>, <<"U+16E76", <<"U+16E56">>>>,
    <<"U+16E77", <<"U+16E57">>>>, <<"U+16E78", <<"U+16E58">>>>,
    <<"U+16E79", <<"U+16E59">>>>, <<"U+16E7A", <<"U+16E5A">>>>,
    <<"U+16E7B", <<"U+16E5B">>>>, <<"U+16E7C", <<"U+16E5C">>>>,
    <<"U+16E7D", <<"U+16E5D">>>>, <<"U+16E7E", <<"U+16E5E">>>>,
    <<"U+16E7F", <<"U+16E5F">>>>, <<"U+1E922", <<"U+1E900">>>>,
    <<"U+1E923", <<"U+1E901">>>>, <<"U+1E924", <<"U+1E902">>>>,
    <<"U+1E925", <<"U+1E903">>>>, <<"U+1E926", <<"U+1E904">>>>,
    <<"U+1E927", <<"U+1E905">>>>, <<"U+1E928", <<"U+1E906">>>>,
    <<"U+1E929", <<"U+1E907">>>>, <<"U+1E92A", <<"U+1E908">>>>,
    <<"U+1E92B", <<"U+1E909">>>>, <<"U+1E92C", <<"U+1E90A">>>>,
    <<"U+1E92D", <<"U+1E90B">>>>, <<"U+1E92E", <<"U+1E90C">>>>,
    <<"U+1E92F", <<"U+1E90D">>>>, <<"U+1E930", <<"U+1E90E">>>>,
    <<"U+1E931", <<"U+1E90F">>>>, <<"U+1E932", <<"U+1E910">>>>,
    <<"U+1E933", <<"U+1E911">>>>, <<"U+1E934", <<"U+1E912">>>>,
    <<"U+1E935", <<"U+1E913">>>>, <<"U+1E936", <<"U+1E914">>>>,
    <<"U+1E937", <<"U+1E915">>>>, <<"U+1E938", <<"U+1E916">>>>,
    <<"U+1E939", <<"U+1E917">>>>, <<"U+1E93A", <<"U+1E918">>>>,
    <<"U+1E93B", <<"U+1E919">>>>, <<"U+1E93C", <<"U+1E91A">>>>,
    <<"U+1E93D", <<"U+1E91B">>>>, <<"U+1E93E", <<"U+1E91C">>>>,
    <<"U+1E93F", <<"U+1E91D">>>>, <<"U+1E940", <<"U+1E91E">>>>,
    <<"U+1E941", <<"U+1E91F">>>>, <<"U+1E942", <<"U+1E920">>>>,
    <<"U+1E943", <<"U+1E921">>>>
  >>

\* str.upper() on one character: the characters it gives.  Up to U+00FF the
\* sharp s gives two and the micro sign and y with diaeresis give a character
\* above U+00FF; a character in none of the tables is left as it is
upper_char(c) ==
  IF \E i \in 1..Len(LowerChars) : LowerChars[i] = c
    THEN <<UpperChars[CHOOSE i \in 1..Len(LowerChars) : LowerChars[i] = c]>>
  ELSE IF c = "ß" THEN <<"S", "S">>
  ELSE IF c = "µ" THEN <<"U+039C">>
  ELSE IF c = "ÿ" THEN <<"U+0178">>
  ELSE IF \E i \in 1..Len(UpperAbove) : UpperAbove[i][1] = c
    THEN UpperAbove[CHOOSE i \in 1..Len(UpperAbove) : UpperAbove[i][1] = c][2]
  ELSE <<c>>

\* str.upper()
RECURSIVE upper(_)
upper(str) ==
  IF Len(str) = 0 THEN <<>>
  ELSE upper_char(Head(str)) \o upper(Tail(str))

\* `logger.handlers` as a condition: the logger has a handler
has_handlers(logger) == Len(logger.handlers) > 0

\* logger.addHandler(handler) with the StreamHandler just created
addHandler(logger) == [logger EXCEPT !.handlers = Append(@, "StreamHandler")]

\* logger.setLevel(settings.log_level.upper()): raises ValueError for a
\* name that is not a level name and leaves the level as it was
setLevel(logger, log_level) ==
  IF upper(log_level) \in LevelNames
    THEN [raised |-> NoException,
          logger |-> [logger EXCEPT !.level = _checkLevel(upper(log_level))]]
    ELSE [raised |-> ValueError, logger |-> logger]

\* setup_logger(name) on the registry when no other thread runs between its
\* statements: the logger of that name gets a console handler and the
\* configured level unless it has a handler already; logger.setLevel raises
\* for an unknown level name, after the handler was added
setup_logger(name, log_level, registry) ==
  LET logger == registry[name] IN
    IF has_handlers(logger) THEN
      [raised |-> NoException, value |-> name, loggers |-> registry]
    ELSE
      LET l == setLevel(addHandler(logger), log_level) IN
        [raised  |-> l.raised,
         value   |-> IF l.raised = NoException THEN name ELSE "none",
         loggers |-> [registry EXCEPT ![name] = l.logger]]

----------------------------------------------------------------------------
(* State *)

VARIABLES
  disk,      \* the persisted store
  wrappers,  \* the ChromaVectorDB instances that are alive
  last,      \* the operation that has just run: its inputs and its result
  ingestion, \* the create_vector_store call another process has in flight
  loggers,   \* the process's registry of loggers, by name
  handler,   \* the /search request whose handler is between its path check
             \* and the opening of the store
  callers    \* the calls of setup_logger in progress, one per thread

vars == <<disk, wrappers, last, ingestion, loggers, handler, callers>>

W == 1..MaxWrappers

StoreSettings ==
  [vector_db_type : VectorDBTypeValues, embedding_provider : EmbeddingProviderValues]
LLMSettings == [llm_provider : LLMProviderValues]

Last(op, w, in, out) == [op |-> op, w |-> w, in |-> in, out |-> out]

\* no operation is running and the last result has been consumed
Idle == Last("idle", 0, <<>>, <<>>)

\* a create_vector_store call in flight in another process: the statement
\* it is at, its chunks, its instance's back end, and whether the
\* persistence path existed when it was called
InFlight(pc, chunks, embeddings, existed) ==
  [pc |-> pc, chunks |-> chunks, embeddings |-> embeddings, existed |-> existed]

NoIngestion == InFlight("none", <<>>, "none", FALSE)

\* a /search request whose handler has found the persistence path and is
\* at pc: "open", before Chroma(...), or "search", before the similarity
\* search.  It holds the request, the configuration, the store as the path
\* check saw it, the statement the ingestion was at then, and the store as
\* Chroma(...) left it (the store as checked before that)
Pending(pc, body, cfg, lib, checked, at, opened) ==
  [pc |-> pc, body |-> body, cfg |-> cfg, lib |-> lib,
   checked |-> checked, ingestion |-> at, opened |-> opened]

NoRequest == [pc |-> "none"]

\* a thread outside setup_logger; inside setup_logger(name) it is at pc "add"
\* when it has found the logger without a handler and is before
\* logger.addHandler, at pc "level" when it is before logger.setLevel
NoCall == [pc |-> "none", name |-> "none"]

Init ==
  /\ disk = Absent
  /\ wrappers = [w \in W |-> NoWrapper]
  /\ last = Idle
  /\ ingestion = NoIngestion
  /\ loggers = [n \in LoggerNames |-> NewLogger]
  /\ handler = NoRequest
  /\ callers = [t \in 1..MaxCallers |-> NoCall]

----------------------------------------------------------------------------
(* Actions.  Execution is single-threaded and synchronous: an operation    *)
(* starts when the previous one has returned.                              *)

\* the result of the operation that has just run goes back to its caller
Return ==
  /\ last # Idle
  /\ last' = Idle
  /\ UNCHANGED <<disk, wrappers, ingestion, loggers, handler, callers>>

\* a caller obtains an instance from the factory and keeps it
GetVectorDb(w, cfg, lib) ==
  /\ last = Idle
  /\ ~wrappers[w].alive
  /\ LET r == get_vector_db(cfg, lib) IN
       /\ wrappers' = IF r.raised = NoException
                        THEN [wrappers EXCEPT ![w] = r.value]
                        ELSE wrappers
       /\ last' = Last("get_vector_db", w, [cfg |-> cfg, lib |-> lib], r)
  /\ UNCHANGED <<disk, ingestion, loggers, handler, callers>>

\* a caller reads the store property of an instance; what Chroma(...) does
\* is drawn only when the property gets to it
StoreAccess(w, open) ==
  /\ last = Idle
  /\ wrappers[w].alive
  /\ \/ Calls(store(wrappers[w], disk, NoException).calls, "Chroma")
     \/ open = NoException
  /\ LET r == store(wrappers[w], disk, open) IN
       /\ r.self.made <= MaxHandles
       /\ wrappers' = [wrappers EXCEPT ![w] = r.self]
       /\ disk' = r.disk
       /\ last' = Last("store", w,
                       [before |-> wrappers[w], disk |-> disk, open |-> open], r)
  /\ UNCHANGED <<ingestion, loggers, handler, callers>>

\* a caller asks an instance for its retriever; what Chroma(...) and the
\* handle's as_retriever(...) do is drawn only when the call gets to them
AsRetriever(w, open, retr) ==
  /\ last = Idle
  /\ wrappers[w].alive
  /\ \/ Calls(store(wrappers[w], disk, NoException).calls, "Chroma")
     \/ open = NoException
  /\ \/ Calls(as_retriever(wrappers[w], disk, open, NoException).calls,
              "as_retriever")
     \/ retr = NoException
  /\ LET r == as_retriever(wrappers[w], disk, open, retr) IN
       /\ r.self.made <= MaxHandles
       /\ wrappers' = [wrappers EXCEPT ![w] = r.self]
       /\ disk' = r.disk
       /\ last' = Last("as_retriever", w,
                       [before |-> wrappers[w], disk |-> disk, open |-> open,
                        retr |-> retr], r)
  /\ UNCHANGED <<ingestion, loggers, handler, callers>>

\* the call gets to shutil.rmtree: it has chunks and the path exists
reaches_rmtree(d, chunks) == ~no_chunks(chunks) /\ PathExists(d)

\* a caller writes chunks through an instance; what shutil.rmtree does is
\* drawn only when the call gets to it, and what Chroma.from_documents
\* writes only when shutil.rmtree has not raised
CreateVectorStore(w, chunks, rm, persisted) ==
  /\ last = Idle
  /\ wrappers[w].alive
  /\ reaches_rmtree(disk, chunks) \/ rm = "removed"
  /\ LET r == create_vector_store(wrappers[w], disk, chunks, rm, persisted) IN
       /\ (reaches_rmtree(disk, chunks) /\ ~Calls(r.calls, "from_documents"))
            => persisted = -1
       /\ r.self.made <= MaxHandles
       /\ wrappers' = [wrappers EXCEPT ![w] = r.self]
       /\ disk' = r.disk
       /\ last' = Last("create_vector_store", w,
                       [chunks |-> chunks, rm |-> rm, persisted |-> persisted,
                        before |-> wrappers[w], disk |-> disk], r)
  /\ UNCHANGED <<ingestion, loggers, handler, callers>>

\* an instance goes out of use
Discard(w) ==
  /\ last = Idle
  /\ wrappers[w].alive
  /\ wrappers' = [wrappers EXCEPT ![w] = NoWrapper]
  /\ last' = Last("discard", w, <<>>, <<>>)
  /\ UNCHANGED <<disk, ingestion, loggers, handler, callers>>

\* one POST /search request, run with no step of another process between
\* its statements; what Chroma(...) does and the library's answer to the
\* similarity search are drawn only when the handler gets to them
Search(body, cfg, lib) ==
  /\ last = Idle
  /\ handler = NoRequest
  /\ \E open \in (IF opens_store(body, disk, cfg, lib)
                     THEN LibraryOutcomes ELSE {NoException}) :
       LET probe == post_search(body, disk, cfg, lib, open, NotSearched)
           outs  == IF Calls(probe.calls, "similarity_search_with_relevance_scores")
                      THEN SearchOutcomes(disk, search_k(SearchRequest(body)))
                      ELSE {NotSearched}
       IN  \E out \in outs :
             LET r == post_search(body, disk, cfg, lib, open, out) IN
               /\ disk' = r.disk
               /\ last' = Last("search", 0,
                               [body |-> body, cfg |-> cfg, lib |-> lib,
                                open |-> open, out |-> out, disk |-> disk,
                                k |-> search_k(SearchRequest(body)),
                                ingestion |-> ingestion.pc], r)
  /\ UNCHANGED <<wrappers, ingestion, loggers, handler, callers>>

\* one construction of the generator
NewRAGGenerator(cfg, libOk) ==
  /\ last = Idle
  /\ last' = Last("RAGGenerator", 0, [cfg |-> cfg, libOk |-> libOk],
                  RAGGenerator(cfg, libOk))
  /\ UNCHANGED <<disk, wrappers, ingestion, loggers, handler, callers>>

DefaultStoreSettings ==
  [vector_db_type |-> "chroma", embedding_provider |-> "huggingface"]

\* one run of the command line in query mode with args.q = q; the
\* configuration is read only when a question is given, and what the
\* libraries do, the LLM configuration and what the chain gives are drawn
\* only when the run gets to them
Query(q, cfg, lib) ==
  /\ last = Idle
  /\ no_question(q) => (cfg = DefaultStoreSettings /\ lib = NoException)
  /\ LET f     == get_vector_db(cfg, lib)
         asked == ~no_question(q) /\ f.raised = NoException
         opens == IF asked /\ Calls(store(f.value, disk, NoException).calls, "Chroma")
                    THEN LibraryOutcomes ELSE {NoException}
     IN  \E open \in opens :
         \E retr \in (IF asked /\ Calls(as_retriever(f.value, disk, open,
                                                     NoException).calls,
                                        "as_retriever")
                         THEN LibraryOutcomes ELSE {NoException}) :
           LET probe == query_mode(q, disk, cfg, lib, open, retr,
                                   [llm_provider |-> "openai"], TRUE, ChainRaises)
               llms  == IF Calls(probe.calls, "RAGGenerator")
                          THEN LLMSettings \X BOOLEAN
                          ELSE {<<[llm_provider |-> "openai"], TRUE>>}
           IN  \E llm \in llms :
                 \E chainOut \in (IF Calls(probe.calls, "RAGGenerator") /\ llm[2]
                                     THEN ChainOutcomes ELSE {ChainRaises}) :
                   LET r == query_mode(q, disk, cfg, lib, open, retr,
                                       llm[1], llm[2], chainOut)
                   IN  /\ disk' = r.disk
                       /\ last' = Last("query", 0,
                                       [arg |-> q, question |-> q.value,
                                        cfg |-> cfg, lib |-> lib,
                                        open |-> open, retr |-> retr,
                                        llmCfg |-> llm[1], llmOk |-> llm[2],
                                        chainOut |-> chainOut, disk |-> disk], r)
  /\ UNCHANGED <<wrappers, ingestion, loggers, handler, callers>>

IngestStep(manager, loadOut, chunkOut, cfg, lib, rm, persisted) ==
  LET r == ingest(manager, disk, loadOut, chunkOut, cfg, lib, rm, persisted) IN
    /\ disk' = r.disk
    /\ last' = Last("ingest", 0,
                    [manager |-> manager, loadOut |-> loadOut,
                     chunkOut |-> chunkOut, cfg |-> cfg, lib |-> lib,
                     rm |-> rm, persisted |-> persisted, disk |-> disk], r)
    /\ UNCHANGED <<wrappers, ingestion, loggers, handler, callers>>

\* one run of the CLI ingest command; what the splitter, the configuration
\* and the store give is drawn only when the run gets to them
Ingest(manager, loadOut) ==
  /\ last = Idle
  /\ LET probe == ingest(manager, disk, loadOut, ChunkRaises,
                         DefaultStoreSettings, NoException, "removed", 0)
     IN  IF ~Calls(probe.calls, "chunk") THEN
           IngestStep(manager, loadOut, ChunkRaises, DefaultStoreSettings,
                      NoException, "removed", 0)
         ELSE
           \E chunkOut \in ChunkOutcomes :
             IF chunkOut.raised # NoException THEN
               IngestStep(manager, loadOut, chunkOut, DefaultStoreSettings,
                          NoException, "removed", 0)
             ELSE
               \E cfg \in StoreSettings, lib \in LibraryOutcomes :
                 \E rm \in (IF /\ get_vector_db(cfg, lib).raised = NoException
                                /\ reaches_rmtree(disk, chunkOut.value)
                               THEN RmtreeOutcomes ELSE {"removed"}) :
                   \E persisted \in
                        (IF /\ reaches_rmtree(disk, chunkOut.value)
                            /\ Rmtree(disk, rm).raised # NoException
                           THEN {-1} ELSE -1..Len(chunkOut.value)) :
                     IngestStep(manager, loadOut, chunkOut, cfg, lib, rm, persisted)

\* load_documents(directory_path) on a data directory
LoadDocuments(dir) ==
  /\ last = Idle
  /\ last' = Last("load_documents", 0, [dir |-> dir],
                  load_documents({}, load_directory(dir)))
  /\ UNCHANGED <<disk, wrappers, ingestion, loggers, handler, callers>>

\* IngestionManager().load(source, **kwargs) on a data directory
ManagerLoad(dir, kwargs) ==
  /\ last = Idle
  /\ last' = Last("IngestionManager.load", 0,
                  [dir |-> dir, kwargs |-> kwargs,
                   pattern |-> glob_pattern(kwargs)],
                  IngestionManager_load(load_directory(dir)))
  /\ UNCHANGED <<disk, wrappers, ingestion, loggers, handler, callers>>

\* split_documents(documents, chunk_size) under the given settings
SplitDocuments(documents, chunk_size, cfg, libChunks) ==
  /\ last = Idle
  /\ last' = Last("split_documents", 0,
                  [documents |-> documents, chunk_size |-> chunk_size,
                   cfg |-> cfg, libChunks |-> libChunks],
                  split_documents(documents, chunk_size, cfg, libChunks))
  /\ UNCHANGED <<disk, wrappers, ingestion, loggers, handler, callers>>

\* IngestionManager().chunk(documents, chunk_size) under the given settings
ManagerChunk(documents, chunk_size, cfg, libChunks) ==
  /\ last = Idle
  /\ last' = Last("IngestionManager.chunk", 0,
                  [documents |-> documents, chunk_size |-> chunk_size,
                   cfg |-> cfg, libChunks |-> libChunks],
                  IngestionManager_chunk(
                    split_documents(documents, chunk_size, cfg, libChunks)))
  /\ UNCHANGED <<disk, wrappers, ingestion, loggers, handler, callers>>

\* the chunks the splitter gives are drawn only when the splitter is built
SplitInputs ==
  { x \in DocLists \X ChunkSizeArgs \X SplitSettings \X ChunkLists :
      \/ ( /\ Len(x[1]) > 0
           /\ split_documents(x[1], x[2], x[3], <<>>).raised = NoException )
      \/ x[4] = <<>> }

\* the ingestion layer used directly: the loader, the splitter, the manager
NextIngestion ==
  \/ \E dir \in Directories : LoadDocuments(dir)
  \/ \E dir \in Directories, kwargs \in LoadKwargs : ManagerLoad(dir, kwargs)
  \/ \E x \in SplitInputs : SplitDocuments(x[1], x[2], x[3], x[4])
  \/ \E x \in SplitInputs : ManagerChunk(x[1], x[2], x[3], x[4])
  \/ Return

SpecIngestion == Init /\ [][NextIngestion]_vars

\* An ingestion process and the API process share the persistence path and
\* take no lock: the statements of create_vector_store are steps of their
\* own, and so are the path check of the store property, the opening of
\* the store that follows it and the similarity search; the steps of the
\* two processes interleave.

\* an ingestion process has built its instance and calls
\* create_vector_store(chunks): `if not chunks: return`
BeginWrite(cfg, chunks) ==
  /\ last = Idle
  /\ ingestion.pc \in {"none", "done", "failed"}
  /\ LET f == get_vector_db(cfg, NoException) IN
       /\ f.raised = NoException
       /\ ingestion' = InFlight(IF no_chunks(chunks) THEN "done" ELSE "delete",
                                chunks, f.value.embeddings, PathExists(disk))
  /\ UNCHANGED <<disk, wrappers, last, loggers, handler, callers>>

\* `if os.path.exists(...): shutil.rmtree(...)`; when shutil.rmtree raises,
\* the except clause re-raises and the call is over
DeleteStep(rm) ==
  /\ ingestion.pc = "delete"
  /\ PathExists(disk) \/ rm = "removed"
  /\ LET r == Rmtree(disk, rm) IN
       IF PathExists(disk) THEN
         /\ disk' = r.disk
         /\ ingestion' = [ingestion EXCEPT
                            !.pc = IF r.raised = NoException
                                     THEN "write" ELSE "failed"]
       ELSE
         /\ disk' = disk
         /\ ingestion' = [ingestion EXCEPT !.pc = "write"]
  /\ UNCHANGED <<wrappers, last, loggers, handler, callers>>

\* `Chroma.from_documents(...)`, which writes all the chunks, or raises
\* having written some of them, or raises before it creates the directory
WriteStep(persisted) ==
  /\ ingestion.pc = "write"
  /\ disk' = IF persisted < 0 THEN disk
             ELSE FromDocuments(disk, SubSeq(ingestion.chunks, 1, persisted),
                                ingestion.embeddings)
  /\ ingestion' = [ingestion EXCEPT
                     !.pc = IF persisted = Len(ingestion.chunks)
                              THEN "done" ELSE "failed"]
  /\ UNCHANGED <<wrappers, last, loggers, handler, callers>>

\* a POST /search request up to and including the path check of the store
\* property: the response, when the handler does not get past it; otherwise
\* the handler goes on to open the store in a later step
SearchCheck(body, cfg, lib) ==
  /\ last = Idle
  /\ handler = NoRequest
  /\ IF opens_store(body, disk, cfg, lib) THEN
       /\ handler' = Pending("open", body, cfg, lib, disk, ingestion.pc, disk)
       /\ UNCHANGED last
     ELSE
       /\ last' = Last("search", 0,
                       [body |-> body, cfg |-> cfg, lib |-> lib,
                        open |-> NoException, out |-> NotSearched,
                        disk |-> disk, k |-> search_k(SearchRequest(body)),
                        ingestion |-> ingestion.pc, opened |-> disk],
                       post_search(body, disk, cfg, lib, NoException,
                                   NotSearched))
       /\ UNCHANGED handler
  /\ UNCHANGED <<disk, wrappers, ingestion, loggers, callers>>

\* the next statement of that request: Chroma(persist_directory=...) on the
\* path as it is now, which creates the directory when the ingestion has
\* removed it since the check.  When the constructor raises, the request is
\* answered; it may have created the directory before it raised
SearchOpen(open) ==
  /\ last = Idle
  /\ handler.pc = "open"
  /\ LET f == get_vector_db(handler.cfg, handler.lib)
         s == store_open(f.value, disk, open)
     IN  IF s.raised = NoException THEN
           /\ disk' = s.disk
           /\ handler' = [handler EXCEPT !.pc = "search", !.opened = s.disk]
           /\ UNCHANGED last
         ELSE
           /\ disk' \in {s.disk, Chroma(disk)}
           /\ handler' = NoRequest
           /\ last' = Last("search", 0,
                           [body |-> handler.body, cfg |-> handler.cfg,
                            lib |-> handler.lib, open |-> open,
                            out |-> NotSearched, disk |-> handler.checked,
                            k |-> search_k(SearchRequest(handler.body)),
                            ingestion |-> handler.ingestion, opened |-> disk'],
                           Response(search_except(s.raised), <<>>,
                                    <<"get_vector_db">> \o f.calls
                                      \o <<"exists">> \o s.calls, disk'))
  /\ UNCHANGED <<wrappers, ingestion, loggers, callers>>

\* what the similarity search can read through a handle opened on the store
\* `opened` when the store is d by now: the client reads the files under the
\* path and keeps what it has loaded, so when the ingestion has rewritten
\* the path in between it can answer from either
SearchReads(opened, d, k) == SearchOutcomes(opened, k) \cup SearchOutcomes(d, k)

\* the rest of that request: the similarity search (which embeds the query
\* and then reads the store), the filter and the response
SearchQuery ==
  /\ last = Idle
  /\ handler.pc = "search"
  /\ LET f == get_vector_db(handler.cfg, handler.lib)
         s == [store_open(f.value, handler.opened, NoException) EXCEPT
                 !.calls = <<"exists">> \o @, !.disk = disk]
         k == search_k(SearchRequest(handler.body))
     IN  \E out \in SearchReads(handler.opened, disk, k) :
           last' = Last("search", 0,
                        [body |-> handler.body, cfg |-> handler.cfg,
                         lib |-> handler.lib, open |-> NoException,
                         out |-> out, disk |-> handler.checked, k |-> k,
                         ingestion |-> handler.ingestion,
                         opened |-> handler.opened],
                        search_found(f, s, out))
  /\ handler' = NoRequest
  /\ UNCHANGED <<disk, wrappers, ingestion, loggers, callers>>

\* the requests and configurations of the searches that run alongside
ConcurrentRequests ==
  { [query |-> q, hasK |-> TRUE, k |-> KMin] : q \in {<<"a">>, <<" ">>} }
ConcurrentSettings ==
  { DefaultStoreSettings,
    [vector_db_type |-> "chroma", embedding_provider |-> "unsupported_embedding"] }

\* the chunk lists and configurations of the ingestions that run alongside
ConcurrentChunkLists ==
  { <<>>,
    <<Doc("c1", {<<"source", "Engineer">>, <<"row", "0">>})>>,
    <<Doc("c1", {<<"source", "Engineer">>, <<"row", "0">>}), Doc("c2", {})>> }
ConcurrentWriters ==
  { DefaultStoreSettings,
    [vector_db_type |-> "chroma", embedding_provider |-> "openai"] }

NextConcurrent ==
  \/ \E cfg \in ConcurrentWriters, chunks \in ConcurrentChunkLists :
       BeginWrite(cfg, chunks)
  \/ \E rm \in RmtreeOutcomes : DeleteStep(rm)
  \/ \E persisted \in -1..Len(ingestion.chunks) : WriteStep(persisted)
  \/ \E body \in ConcurrentRequests, cfg \in ConcurrentSettings :
       SearchCheck(body, cfg, NoException)
  \/ \E open \in LibraryOutcomes : SearchOpen(open)
  \/ SearchQuery
  \/ Return

SpecConcurrent == Init /\ [][NextConcurrent]_vars

\* setup_logger takes no lock of its own: logging.getLogger, the test of
\* logger.handlers, logger.addHandler and logger.setLevel each take and
\* release the logging module's lock, and another thread can run between
\* any two of them.  The result of a call goes to `last` when it returns or
\* raises: the name asked for, the level it read, and whether it found the
\* logger with a handler.
LoggerResult(t, name, log_level, had, raised) ==
  Last("setup_logger", t, [name |-> name, log_level |-> log_level, had |-> had],
       [raised |-> raised,
        value  |-> IF raised = NoException THEN name ELSE "none"])

\* a thread calls setup_logger(name): logging.getLogger(name) and
\* `if not logger.handlers`; with a handler there the call returns the logger
LoggerCheck(t, name) ==
  /\ callers[t] = NoCall
  /\ IF has_handlers(loggers[name]) THEN
       /\ last = Idle
       /\ last' = LoggerResult(t, name, <<>>, TRUE, NoException)
       /\ UNCHANGED callers
     ELSE
       /\ callers' = [callers EXCEPT ![t] = [pc |-> "add", name |-> name]]
       /\ UNCHANGED last
  /\ UNCHANGED <<disk, wrappers, ingestion, loggers, handler>>

\* the handler is created, given its formatter and added:
\* logger.addHandler(handler)
LoggerAddHandler(t) ==
  /\ callers[t].pc = "add"
  /\ loggers' = [loggers EXCEPT ![callers[t].name] = addHandler(@)]
  /\ callers' = [callers EXCEPT ![t].pc = "level"]
  /\ UNCHANGED <<disk, wrappers, last, ingestion, handler>>

\* logger.setLevel(settings.log_level.upper()) and `return logger`
LoggerSetLevel(t, log_level) ==
  /\ callers[t].pc = "level"
  /\ last = Idle
  /\ LET name == callers[t].name
         l    == setLevel(loggers[name], log_level)
     IN  /\ loggers' = [loggers EXCEPT ![name] = l.logger]
         /\ last' = LoggerResult(t, name, log_level, FALSE, l.raised)
  /\ callers' = [callers EXCEPT ![t] = NoCall]
  /\ UNCHANGED <<disk, wrappers, ingestion, handler>>

NextLogger ==
  \/ \E t \in 1..MaxCallers, name \in LoggerNames : LoggerCheck(t, name)
  \/ \E t \in 1..MaxCallers : LoggerAddHandler(t)
  \/ \E t \in 1..MaxCallers, log_level \in LogLevelSettings : LoggerSetLevel(t, log_level)
  \/ Return

SpecLogger == Init /\ [][NextLogger]_vars

\* the entry points of the application: the CLI and the HTTP API
Next ==
  \/ \E manager \in Managers, loadOut \in LoadOutcomes : Ingest(manager, loadOut)
  \/ \E body \in Requests, cfg \in StoreSettings, lib \in LibraryOutcomes :
       Search(body, cfg, lib)
  \/ \E cfg \in LLMSettings, libOk \in BOOLEAN : NewRAGGenerator(cfg, libOk)
  \/ \E q \in QuestionArgs, cfg \in StoreSettings, lib \in LibraryOutcomes :
       Query(q, cfg, lib)
  \/ Return

Spec == Init /\ [][Next]_vars

\* the retrieval layer used directly: the factory and the instance's methods
NextStore ==
  \/ \E w \in W, cfg \in StoreSettings, lib \in LibraryOutcomes :
       GetVectorDb(w, cfg, lib)
  \/ \E w \in W, open \in LibraryOutcomes : StoreAccess(w, open)
  \/ \E w \in W, open \in LibraryOutcomes, retr \in LibraryOutcomes :
       AsRetriever(w, open, retr)
  \/ \E w \in W, chunks \in ChunkLists, rm \in RmtreeOutcomes :
       \E persisted \in -1..Len(chunks) :
         CreateVectorStore(w, chunks, rm, persisted)
  \/ \E w \in W : Discard(w)
  \/ Return

SpecStore == Init /\ [][NextStore]_vars

\* a long-lived instance used next to the API's search requests, each of
\* which builds an instance of its own
NextHandles ==
  \/ NextStore
  \/ \E body \in ConcurrentRequests, cfg \in ConcurrentSettings :
       Search(body, cfg, NoException)

SpecHandles == Init /\ [][NextHandles]_vars

----------------------------------------------------------------------------
(* Properties *)

\* the operation that has just run is a call of the given method
Ran(op) == last.op = op

\* name occurs in the call sequence before other
CalledBefore(seq, name, other) ==
  \E i, j \in 1..Len(seq) : i < j /\ seq[i] = name /\ seq[j] = other

\* the back end each supported provider stands for
BackendOf(provider) ==
  CASE provider = "openai" -> "OpenAIEmbeddings"
    [] provider = "google" -> "GoogleGenerativeAIEmbeddings"
    [] provider = "huggingface" -> "HuggingFaceEmbeddings"
    [] OTHER -> "none"

\* a create_vector_store call with a non-empty chunk list has returned
WroteChunks ==
  /\ Ran("create_vector_store")
  /\ Len(last.in.chunks) > 0
  /\ last.out.raised = NoException

\* C1: after a create_vector_store call with a non-empty chunk list that
\* completed without error, the store that was there before has been removed
\* before the write (rmtree precedes from_documents) and the persisted store
\* holds exactly one record per chunk of this call, embedded by the
\* instance's back end, and no record of an earlier ingestion.
C1_WriteReplacesStore ==
  WroteChunks =>
    /\ disk.exists
    /\ disk.records = Embedded(last.in.chunks, last.in.before.embeddings)
    /\ last.in.disk.exists =>
         CalledBefore(last.out.calls, "rmtree", "from_documents")

\* a write has replaced an older store that held other records
C1_Witness ==
  /\ WroteChunks
  /\ last.in.disk.exists
  /\ Len(last.in.disk.records) > 0
  /\ last.in.disk.records # disk.records

\* C2: create_vector_store with an empty chunk list returns without error
\* and changes neither the persisted store (present or absent, it stays as
\* it was) nor the instance, its cached handle included; it calls nothing.
C2_EmptyWriteIsNoOp ==
  [][ (last'.op = "create_vector_store" /\ Len(last'.in.chunks) = 0) =>
        /\ last'.out.raised = NoException
        /\ last'.out.calls = <<>>
        /\ disk' = disk
        /\ wrappers' = wrappers ]_vars

\* an empty write has run on an instance with a cached handle while a store
\* with records was persisted
C2_Witness ==
  /\ Ran("create_vector_store")
  /\ Len(last.in.chunks) = 0
  /\ disk.exists
  /\ Len(disk.records) > 0
  /\ wrappers[last.w]._store # None

\* a read on an instance without a cached handle found the path missing
ReadWithoutStore ==
  /\ (Ran("store") \/ Ran("as_retriever"))
  /\ last.in.before._store = None
  /\ ~last.in.disk.exists

\* an instance freshly constructed for the provider
Fresh(p) == ChromaVectorDB([embedding_provider |-> p], NoException).value

\* C3 as claimed: a read of the store (the store property, as_retriever) on
\* an instance without a cached handle raises FileNotFoundError whenever the
\* persistence path does not exist; and after create_vector_store with
\* non-empty chunks has succeeded the path exists and a read succeeds, on
\* the writing instance and on any freshly constructed one.
C3_Original ==
  /\ ReadWithoutStore => last.out.raised = FileNotFoundError
  /\ WroteChunks =>
       /\ disk.exists
       /\ \A open, retr \in LibraryOutcomes :
            /\ store(wrappers[last.w], disk, open).raised = NoException
            /\ as_retriever(wrappers[last.w], disk, open, retr).raised = NoException
            /\ \A p \in EmbeddingProviders :
                 /\ store(Fresh(p), disk, open).raised = NoException
                 /\ as_retriever(Fresh(p), disk, open, retr).raised = NoException

\* C3, amended: as claimed for the missing path; and after
\* create_vector_store with non-empty chunks has succeeded the path exists
\* and a read gets past the path check: the store property of the writing
\* instance returns its handle, and every other read (as_retriever, a read
\* on a freshly constructed instance) returns unless the library call it
\* makes raises, Chroma(...) where no handle is cached and then the
\* handle's as_retriever(...), and then raises that call's exception.
C3_ReadNeedsStore ==
  /\ ReadWithoutStore => last.out.raised = FileNotFoundError
  /\ WroteChunks =>
       /\ disk.exists
       /\ \A open, retr \in LibraryOutcomes :
            /\ store(wrappers[last.w], disk, open).raised = NoException
            /\ as_retriever(wrappers[last.w], disk, open, retr).raised = retr
            /\ \A p \in EmbeddingProviders :
                 /\ store(Fresh(p), disk, open).raised = open
                 /\ as_retriever(Fresh(p), disk, open, retr).raised =
                      (IF open # NoException THEN open ELSE retr)

\* a read on an instance without a handle has found no store
C3_Witness ==
  /\ Ran("store")
  /\ last.in.before._store = None
  /\ ~last.in.disk.exists
  /\ last.out.raised = FileNotFoundError

\* the handler body of POST /search has run on a request that passed the
\* schema's validation
Searched == Ran("search") /\ SearchRequest(last.in.body).valid

\* the query is empty or holds whitespace only
Blank(q) == \A i \in 1..Len(q) : q[i] \in Whitespace

\* building the wrapper fails for the request's configuration
WrapperFails(in) ==
  \/ in.cfg.vector_db_type \notin VectorDBTypes
  \/ in.cfg.embedding_provider \notin EmbeddingProviders
  \/ in.lib # NoException

\* C4 as claimed: for a non-blank query the status is 503 if the persisted
\* store is missing, 500 if any other failure occurs while building the
\* wrapper or searching, and 200 otherwise.
C4_Original ==
  (Searched /\ ~Blank(last.in.body.query)) =>
    last.out.status =
      IF ~disk.exists THEN 503
      ELSE IF \/ WrapperFails(last.in)
              \/ last.in.open # NoException
              \/ last.in.out.raised # NoException THEN 500
      ELSE 200

\* the first exception raised in the handler body, NoException when there
\* is none: get_vector_db() (the type, then the provider, then the back
\* end's constructor), then the store property (its path check, then
\* Chroma(...)), then the similarity search
FirstError(in) ==
  IF in.cfg.vector_db_type \notin VectorDBTypes THEN ValueError
  ELSE IF in.cfg.embedding_provider \notin EmbeddingProviders THEN ValueError
  ELSE IF in.lib # NoException THEN in.lib
  ELSE IF ~in.disk.exists THEN FileNotFoundError
  ELSE IF in.open # NoException THEN in.open
  ELSE in.out.raised

\* C4, amended: for a non-blank query the status follows the type of the
\* first exception raised in the handler body: 503 when it is a
\* FileNotFoundError (the one the store property raises on a missing path,
\* or one a library raises), 500 for any other exception, 200 when nothing
\* is raised.  The wrapper is built before the path is looked at, so a
\* missing store is answered 500 when building the wrapper fails with
\* another error.
C4_SearchStatus ==
  (Searched /\ ~Blank(last.in.body.query)) =>
    last.out.status =
      IF FirstError(last.in) = NoException THEN 200
      ELSE IF FirstError(last.in) = FileNotFoundError THEN 503
      ELSE 500

\* a search has found no store, and building its wrapper failed with
\* another error first: it answered 500
C4_Witness ==
  /\ Searched
  /\ ~Blank(last.in.body.query)
  /\ ~last.in.disk.exists
  /\ FirstError(last.in) \notin {NoException, FileNotFoundError}
  /\ last.out.status = 500

\* C5: a request whose query is empty or whitespace only is answered 200
\* with an empty result list, and the handler neither builds the wrapper nor
\* calls the store, whatever the persisted store and the configuration are.
C5_BlankQueryShortCircuits ==
  (Searched /\ Blank(last.in.body.query)) =>
    /\ last.out.status = 200
    /\ last.out.results = <<>>
    /\ last.out.calls = <<>>

\* a whitespace-only query has been answered while no store was persisted
\* and the configuration was unusable
C5_Witness ==
  /\ Searched
  /\ Len(last.in.body.query) > 0
  /\ Blank(last.in.body.query)
  /\ ~disk.exists
  /\ WrapperFails(last.in)
  /\ last.out.status = 200

\* the search handler got a list of neighbors from the store
GotNeighbors ==
  /\ Searched
  /\ Calls(last.out.calls, "similarity_search_with_relevance_scores")
  /\ last.in.out.raised = NoException

\* the positions of the neighbors whose unrounded score is at least 0.3
KeptPositions(ns) == { i \in 1..Len(ns) : ns[i].score >= SIMILARITY_THRESHOLD }

\* C6: the results of a search are exactly the neighbors whose unrounded
\* score is at least 0.3, a score of exactly 0.3 included, in the order the
\* store returned them: the n-th result is the n-th such neighbor.
C6_ThresholdFilter ==
  GotNeighbors =>
    LET ns == last.in.out.neighbors
        rs == last.out.results
        K  == KeptPositions(ns)
    IN  /\ last.out.status = 200
        /\ Len(rs) = Cardinality(K)
        /\ \A i \in K :
             LET n == Cardinality({ j \in K : j <= i })
             IN  /\ rs[n].content = ns[i].doc.page_content
                 /\ rs[n].score = round4(ns[i].score)

\* a search got a neighbor scoring exactly 0.3, which it kept, after one
\* scoring just below 0.3 that rounds to 0.3, which it dropped
C6_Witness ==
  /\ GotNeighbors
  /\ Len(last.in.out.neighbors) = 2
  /\ last.in.out.neighbors[1].score = SIMILARITY_THRESHOLD
  /\ last.in.out.neighbors[2].score < SIMILARITY_THRESHOLD
  /\ round4(last.in.out.neighbors[2].score) = round4(SIMILARITY_THRESHOLD)
  /\ Len(last.out.results) = 1

\* C7 as claimed: get_vector_db returns a ChromaVectorDB when the configured
\* type is chroma, and for any other value raises ValueError without
\* constructing anything.
C7_Original ==
  Ran("get_vector_db") =>
    IF last.in.cfg.vector_db_type = "chroma"
      THEN last.out.raised = NoException /\ wrappers[last.w].alive
      ELSE /\ last.out.raised = ValueError
           /\ last.out.calls = <<>>
           /\ ~wrappers[last.w].alive

\* C7, amended: when the configured type is chroma get_vector_db constructs
\* a ChromaVectorDB and returns it, unless the constructor raises (an
\* unsupported embedding provider, a back end that fails to initialise), in
\* which case that error is what get_vector_db raises; for any other value
\* it raises ValueError without constructing anything and without falling
\* back to an implementation.
C7_FactoryDispatch ==
  Ran("get_vector_db") =>
    IF last.in.cfg.vector_db_type = "chroma"
      THEN /\ last.out.calls = <<"ChromaVectorDB">>
           /\ last.out.raised =
                IF last.in.cfg.embedding_provider \notin EmbeddingProviders
                  THEN ValueError
                ELSE IF last.in.lib # NoException THEN last.in.lib
                ELSE NoException
           /\ last.out.raised = NoException =>
                /\ wrappers[last.w].alive
                /\ wrappers[last.w]._store = None
           /\ last.out.raised # NoException => ~wrappers[last.w].alive
      ELSE /\ last.out.raised = ValueError
           /\ last.out.calls = <<>>
           /\ ~wrappers[last.w].alive

\* the factory has refused an unsupported type
C7_Witness ==
  /\ Ran("get_vector_db")
  /\ last.in.cfg.vector_db_type # "chroma"
  /\ last.in.cfg.embedding_provider \in EmbeddingProviders
  /\ last.in.lib = NoException
  /\ last.out.raised = ValueError

\* C8: constructing the wrapper selects the one back end of the configured
\* provider; for any other configured value the constructor raises
\* ValueError and no instance comes to exist, so every instance holds a
\* supported back end and no write or read raises the configuration error.
C8_EmbeddingSelection ==
  /\ \A w \in W : wrappers[w].alive => wrappers[w].embeddings \in EmbeddingBackends
  /\ (Ran("get_vector_db") /\ last.in.cfg.vector_db_type = "chroma") =>
       IF last.in.cfg.embedding_provider \in EmbeddingProviders
         THEN last.out.raised = NoException =>
                wrappers[last.w].embeddings = BackendOf(last.in.cfg.embedding_provider)
         ELSE /\ last.out.raised = ValueError
              /\ ~wrappers[last.w].alive
  /\ (Ran("store") \/ Ran("as_retriever") \/ Ran("create_vector_store")) =>
       last.out.raised # ValueError

\* the constructor has refused an unsupported embedding provider
C8_Witness ==
  /\ Ran("get_vector_db")
  /\ last.in.cfg.vector_db_type = "chroma"
  /\ last.in.cfg.embedding_provider \notin EmbeddingProviders
  /\ last.in.lib = NoException
  /\ last.out.raised = ValueError

\* C9 as claimed, where the LLM classes themselves construct without error:
\* constructing RAGGenerator with a configured LLM provider that is neither
\* google nor openai raises a configuration error and builds no LLM of a
\* default provider.
C9_LLMSelectionFailsFast ==
  ( /\ Ran("RAGGenerator")
    /\ last.in.cfg.llm_provider \notin LLMProviders
    /\ last.in.libOk ) =>
    /\ last.out.raised = ValueError
    /\ last.out.value.llm = "none"

\* some step of the ingest run raised: the load, the chunking, the factory
\* or the write (the removal of the old store, Chroma.from_documents)
IngestStepRaised(in) ==
  LET loaded == manager_load(in.manager, in.loadOut) IN
    \/ loaded.raised # NoException
    \/ /\ Len(loaded.value) > 0
       /\ \/ in.chunkOut.raised # NoException
          \/ WrapperFails(in)
          \/ /\ reaches_rmtree(in.disk, in.chunkOut.value)
             /\ Rmtree(in.disk, in.rm).raised # NoException
          \/ Len(in.chunkOut.value) > 0 /\ in.persisted < Len(in.chunkOut.value)

\* C10: whenever the load, the chunking, the construction of the store by
\* the factory or the write raises inside the CLI ingest command, the
\* process ends with a non-zero exit status; ingest does not return normally
\* after one of these steps raised.
C10_IngestFailureExits ==
  (Ran("ingest") /\ IngestStepRaised(last.in)) =>
    /\ last.out.outcome = "SystemExit"
    /\ last.out.code # 0

\* an ingest run whose write failed after the old store was removed has
\* ended with exit status 1
C10_Witness ==
  /\ Ran("ingest")
  /\ Calls(last.out.calls, "create_vector_store")
  /\ last.in.persisted < Len(last.in.chunkOut.value)
  /\ last.in.disk.exists
  /\ ~disk.exists
  /\ last.out.outcome = "SystemExit"
  /\ last.out.code = 1

\* some step of the query run failed: no question was given, or the factory
\* or the embedding back end failed, the store was missing, the retriever's
\* initialisation, the LLM's construction or the chain's invocation failed
QueryStepFailed(in) ==
  \/ no_question(in.arg)
  \/ WrapperFails(in)
  \/ ~in.disk.exists
  \/ in.open # NoException
  \/ in.retr # NoException
  \/ ~in.llmOk
  \/ in.chainOut.raised # NoException

\* C11 as claimed: every failure inside the CLI query command ends with
\* query returning normally; no exception leaves query.
C11_QueryNeverRaises ==
  (Ran("query") /\ QueryStepFailed(last.in)) =>
    /\ last.out.outcome = "returned"
    /\ last.out.raised = NoException

\* the load of the ingest run returned an empty document list
LoadedNothing(in) ==
  LET loaded == manager_load(in.manager, in.loadOut) IN
    loaded.raised = NoException /\ Len(loaded.value) = 0

\* C12: when the load yields zero documents the CLI ingest command returns
\* normally; it calls neither the chunker nor the store factory nor
\* create_vector_store, and the persisted store is what it was before.
C12_NoDocumentsAborts ==
  (Ran("ingest") /\ LoadedNothing(last.in)) =>
    /\ last.out.outcome = "returned"
    /\ last.out.raised = NoException
    /\ last.out.calls = <<"load">>
    /\ disk = last.in.disk

\* an ingest run has loaded nothing while a store with records was persisted
C12_Witness ==
  /\ Ran("ingest")
  /\ LoadedNothing(last.in)
  /\ last.in.disk.exists
  /\ Len(last.in.disk.records) > 0
  /\ last.out.outcome = "returned"

\* the documents of the directory's files that the glob matches
RECURSIVE MatchedDocs(_, _, _)
MatchedDocs(files, glob, skipUnparsed) ==
  IF Len(files) = 0 THEN <<>>
  ELSE IF Matches(Head(files), glob) /\ (Head(files).parses \/ ~skipUnparsed)
    THEN <<FileDoc(Head(files))>> \o MatchedDocs(Tail(files), glob, skipUnparsed)
    ELSE MatchedDocs(Tail(files), glob, skipUnparsed)

\* some PDF of the directory fails to parse
SomeParseFailure(dir) ==
  \E i \in 1..Len(dir.files) :
    Matches(dir.files[i], "*.pdf") /\ ~dir.files[i].parses

\* C13 as claimed: when the parse of a matched file fails during the load,
\* load_documents skips that file and returns the documents of every other
\* matched file; the failure of one file does not abort the load.
C13_ParseFailureSkipsFile ==
  ( /\ Ran("load_documents")
    /\ last.in.dir.exists
    /\ SomeParseFailure(last.in.dir) ) =>
    /\ last.out.raised = NoException
    /\ last.out.value = MatchedDocs(last.in.dir.files, "*.pdf", TRUE)

\* C14: after any sequence of writes made by instances of whatever embedding
\* providers, empty and failing writes included, all records the persisted
\* store holds were embedded by one and the same back end.
C14_SingleProvider ==
  \A i, j \in 1..Len(disk.records) :
    disk.records[i].provider = disk.records[j].provider

\* a write that failed part-way has left records of its own back end where
\* a store written by another back end stood before
C14_Witness ==
  /\ Ran("create_vector_store")
  /\ last.out.raised # NoException
  /\ Len(last.in.disk.records) > 0
  /\ last.in.disk.records[1].provider # last.in.before.embeddings
  /\ Len(disk.records) > 0
  /\ disk.records[1].provider = last.in.before.embeddings

\* the search handler or the query command got as far as reading the store
ReadStore ==
  \/ Ran("search") /\ Calls(last.out.calls, "similarity_search_with_relevance_scores")
  \/ Ran("query") /\ Calls(last.out.calls, "invoke")

\* the back end with which the reading process embeds the query text: the
\* one its own configuration selects
ReaderBackend(in) == get_vector_db(in.cfg, in.lib).value.embeddings

\* C15 as claimed: every read of the persisted store embeds the query text
\* with the back end that embedded the stored records, whatever the
\* configuration of the writing and of the reading process.
C15_ReadUsesWriteProvider ==
  ReadStore =>
    \A i \in 1..Len(last.in.disk.records) :
      last.in.disk.records[i].provider = ReaderBackend(last.in)

\* C16: no run of the search endpoint or of the CLI query command creates,
\* deletes or modifies the persistence directory or a stored record; the
\* persisted store changes only in a create_vector_store call with a
\* non-empty chunk list.
C16_ReadsLeaveStore ==
  [][ /\ ( \/ handler' # handler
           \/ (last' # last /\ last'.op \in {"search", "query"}) ) => disk' = disk
      /\ disk' # disk =>
            \/ /\ last' # last
               /\ last'.op = "create_vector_store"
               /\ Len(last'.in.chunks) > 0
            \/ /\ last' # last
               /\ last'.op = "ingest"
               /\ Calls(last'.out.calls, "create_vector_store")
               /\ Len(last'.in.chunkOut.value) > 0
            \/ /\ ingestion.pc \in {"delete", "write"}
               /\ ingestion'.pc # ingestion.pc
               /\ Len(ingestion.chunks) > 0 ]_vars

\* the query command has run its chain over a store with records, and a
\* store with the same records is there afterwards
C16_Witness ==
  /\ Ran("query")
  /\ Calls(last.out.calls, "invoke")
  /\ Len(last.in.disk.records) > 0
  /\ disk = last.in.disk

\* a search with a usable configuration and a non-blank query has run
WorkingSearch ==
  /\ Searched
  /\ ~Blank(last.in.body.query)
  /\ ~WrapperFails(last.in)

\* C17: no lock guards the persisted store, so a search can run between the
\* delete step and the write step of an ingestion: there the records are
\* gone although a store existed when the ingestion started, a search whose
\* path check runs there and finds the path missing answers 503, and once
\* the ingestion has finished its write a store exists again.
C17_SearchRacesDelete ==
  /\ ingestion.pc = "write" => Len(disk.records) = 0
  /\ (WorkingSearch /\ last.in.ingestion = "write" /\ ~last.in.disk.exists)
       => last.out.status = 503
  /\ (ingestion.pc = "done" /\ Len(ingestion.chunks) > 0) => disk.exists

\* an ingestion over an existing store has finished and a store exists, and
\* the search that ran between its delete and its write step answered 503
C17_Witness ==
  /\ ingestion.pc = "done"
  /\ ingestion.existed
  /\ disk.exists
  /\ WorkingSearch
  /\ last.in.ingestion = "write"
  /\ ~last.in.disk.exists
  /\ last.out.status = 503

\* C18 as claimed: IngestionManager.load(source, glob_pattern=p) calls
\* load_documents(source, glob_pattern=p), with p = "*.pdf" when no pattern
\* is given; load_documents accepts the call, scans the directory with glob
\* p and returns the documents found.
C18_ManagerLoadDelegates ==
  Ran("IngestionManager.load") =>
    LET scan == DirectoryLoader_load(last.in.dir, last.in.pattern,
                                     silent_errors_default)
    IN  /\ last.in.pattern =
             (IF last.in.kwargs.given THEN last.in.kwargs.glob_pattern ELSE "*.pdf")
        /\ last.out.raised = scan.raised
        /\ last.out.value = scan.value

\* split_documents has run, directly or through IngestionManager.chunk
Split == Ran("split_documents") \/ Ran("IngestionManager.chunk")

\* the chunk size the claims call effective: the explicit argument when one
\* is provided, the configured default when none is
EffectiveChunkSize(in) ==
  IF in.chunk_size.given THEN in.chunk_size.value ELSE in.cfg.chunk_size

\* C19 as claimed: the chunk size the splitter is built with is the explicit
\* chunk_size argument whenever one is provided and the configured default
\* only when none is, and the overlap is always the configured chunk_overlap.
C19_ChunkSizePrecedence ==
  Split =>
    /\ last.out.splitter.chunk_size = EffectiveChunkSize(last.in)
    /\ last.out.splitter.chunk_overlap = last.in.cfg.chunk_overlap

\* C20 as claimed: whenever the configured chunk_overlap exceeds the
\* effective chunk size split_documents raises a configuration error and
\* produces no chunk; in particular an explicit chunk_size smaller than the
\* configured overlap makes chunking fail.
C20_OverlapFailsFast ==
  (Split /\ last.in.cfg.chunk_overlap > EffectiveChunkSize(last.in)) =>
    /\ last.out.raised = ValueError
    /\ last.out.value = <<>>

\* the retriever as_retriever returned is over the instance's store handle
\* (the cached one, or the one it opened), with k fixed to 5 and no score
\* threshold
ReturnedRetriever ==
  /\ last.out.raised = NoException
  /\ last.out.value.k = 5
  /\ "score_threshold" \notin last.out.value.search_kwargs
  /\ last.out.value.handle = wrappers[last.w]._store
  /\ last.in.before._store # None =>
       last.out.value.handle = last.in.before._store

\* C21 as claimed: as_retriever always returns a retriever over the
\* instance's store handle with k fixed to 5 and no score threshold; when
\* the persistence path does not exist and no handle is cached it raises
\* FileNotFoundError and returns no retriever.
C21_Original ==
  Ran("as_retriever") =>
    IF last.in.before._store = None /\ ~last.in.disk.exists
      THEN /\ last.out.raised = FileNotFoundError
           /\ last.out.value = None
      ELSE ReturnedRetriever

\* the exception of the library call as_retriever makes that raises first:
\* Chroma(...) when no handle is cached, then the handle's as_retriever(...)
RetrieverError(in) ==
  IF in.before._store = None /\ in.open # NoException THEN in.open ELSE in.retr

\* C21, amended: when the persistence path does not exist and no handle is
\* cached as_retriever raises FileNotFoundError and returns no retriever;
\* otherwise it returns a retriever over the instance's store handle with k
\* fixed to 5 and no score threshold, unless Chroma(...) or the handle's
\* as_retriever(...) raises, and then it raises that exception and returns
\* no retriever.
C21_RetrieverFixedK ==
  Ran("as_retriever") =>
    IF last.in.before._store = None /\ ~last.in.disk.exists
      THEN /\ last.out.raised = FileNotFoundError
           /\ last.out.value = None
    ELSE IF RetrieverError(last.in) # NoException
      THEN /\ last.out.raised = RetrieverError(last.in)
           /\ last.out.value = None
      ELSE ReturnedRetriever

\* as_retriever has opened the persisted store and returned a retriever
C21_Witness ==
  /\ Ran("as_retriever")
  /\ last.in.before._store = None
  /\ last.in.disk.exists
  /\ last.out.raised = NoException
  /\ last.out.value.k = 5

\* C22: a POST /search request whose k is outside 1..20 is rejected by the
\* schema (422) before the handler body runs, so nothing is called and the
\* store is not contacted; a request without k is served with k = 5; and a
\* successful response holds at most k results.
C22_KIsValidatedAndBounds ==
  Ran("search") =>
    LET body == last.in.body
        k    == IF body.hasK THEN body.k ELSE 5
    IN  /\ (k < 1 \/ k > 20) =>
             /\ last.out.status = 422
             /\ last.out.calls = <<>>
             /\ disk = last.in.disk
        /\ Calls(last.out.calls, "similarity_search_with_relevance_scores") =>
             /\ k >= 1 /\ k <= 20
             /\ last.in.k = k
        /\ last.out.status = 200 => Len(last.out.results) <= k

\* a search with k = 1 over a store of two records has answered with one
\* result
C22_Witness ==
  /\ Ran("search")
  /\ last.in.body.hasK
  /\ last.in.body.k = 1
  /\ Len(last.in.disk.records) = 2
  /\ last.out.status = 200
  /\ Len(last.out.results) = 1

\* how often name occurs in the call sequence
Count(seq, name) == Cardinality({ i \in 1..Len(seq) : seq[i] = name })

\* what C23 says of the factory, the chain and the invocation in one run of
\* the CLI query command: the store factory is called once; the chain is
\* built from exactly the retriever as_retriever returned and is invoked at
\* most once, with the question as it was given; an invocation that failed
\* is not repeated; and when the store is missing the LLM is not
\* constructed and no chain is built or invoked
QueryCalls ==
  /\ Count(last.out.calls, "get_vector_db") = 1
  /\ Count(last.out.calls, "get_chain") <= 1
  /\ Count(last.out.calls, "invoke") <= 1
  /\ Count(last.out.calls, "invoke") = Len(last.out.invoked)
  /\ \A i \in 1..Len(last.out.invoked) : last.out.invoked[i] = last.in.question
  /\ Calls(last.out.calls, "get_chain") =>
       /\ last.out.retriever # NoRetriever
       /\ last.out.chain.retriever = last.out.retriever
  /\ (~WrapperFails(last.in) /\ ~last.in.disk.exists) =>
       /\ ~Calls(last.out.calls, "RAGGenerator")
       /\ ~Calls(last.out.calls, "get_chain")
       /\ ~Calls(last.out.calls, "invoke")
       /\ last.out.chain = NoChain

\* C23 as claimed: in one run of the CLI query command the store factory is
\* called once and as_retriever once, the chain is built from exactly that
\* retriever and invoked at most once with the unmodified question, never
\* again after a failure, and with the store missing no LLM is constructed
\* and no chain built or invoked.
C23_Original ==
  Ran("query") =>
    /\ Count(last.out.calls, "as_retriever") = 1
    /\ QueryCalls

\* C23, amended: as claimed for a run that is given a question, except that
\* as_retriever is called once when the store factory returned a wrapper and
\* not at all when the factory raised (the run ends there, at the factory's
\* exception); a run that is given no question calls nothing.
C23_QueryCallsOnce ==
  Ran("query") =>
    IF no_question(last.in.arg) THEN last.out.calls = <<>>
    ELSE /\ Count(last.out.calls, "as_retriever") =
              (IF WrapperFails(last.in) THEN 0 ELSE 1)
         /\ QueryCalls

\* a query run whose chain invocation failed has ended after that one
\* invocation
C23_Witness ==
  /\ Ran("query")
  /\ Calls(last.out.calls, "invoke")
  /\ last.in.chainOut.raised # NoException
  /\ last.out.invoked = <<last.in.question>>
  /\ last.out.outcome = "returned"

\* the ingest run went through the whole pipeline and returned normally
Completed ==
  /\ Ran("ingest")
  /\ last.out.outcome = "returned"
  /\ ~LoadedNothing(last.in)

\* C24: in a successful run of the CLI ingest command load, chunk,
\* get_vector_db and create_vector_store are called in this order, each
\* exactly once, and create_vector_store receives the list the chunker
\* returned, so that the store holds exactly those chunks; and the existing
\* store is not deleted by a run whose load or chunking failed.
C24_IngestOrder ==
  /\ Completed =>
       /\ last.out.calls = <<"load", "chunk", "get_vector_db", "create_vector_store">>
       /\ manager_load(last.in.manager, last.in.loadOut).raised = NoException
       /\ last.in.chunkOut.raised = NoException
       /\ Len(last.in.chunkOut.value) > 0 =>
            /\ disk.exists
            /\ disk.records =
                 Embedded(last.in.chunkOut.value,
                          BackendOf(last.in.cfg.embedding_provider))
  /\ (Ran("ingest") /\ ~Calls(last.out.calls, "get_vector_db")) =>
       disk = last.in.disk

\* a successful ingest run has replaced an older store by the chunks the
\* chunker returned
C24_Witness ==
  /\ Completed
  /\ Len(last.in.chunkOut.value) = 2
  /\ last.in.disk.exists
  /\ Len(last.in.disk.records) > 0
  /\ disk # last.in.disk

\* a create_vector_store call with a non-empty chunk list has removed an
\* existing store and then failed in Chroma.from_documents
FailedAfterDelete ==
  /\ Ran("create_vector_store")
  /\ Len(last.in.chunks) > 0
  /\ last.in.disk.exists
  /\ last.in.rm = "removed"
  /\ last.in.persisted < Len(last.in.chunks)

\* C26: when create_vector_store with non-empty chunks fails in the
\* embedding or the write after it has removed an existing store, the error
\* goes to the caller and the previous store is not restored: the store is
\* gone, or holds only the chunks this call wrote before it failed, and no
\* record of the previous store; the instance caches no new handle.
C26_FailedWriteNotRolledBack ==
  FailedAfterDelete =>
    /\ last.out.raised # NoException
    /\ CalledBefore(last.out.calls, "rmtree", "from_documents")
    /\ wrappers[last.w] = last.in.before
    /\ IF last.in.persisted < 0
         THEN disk = Absent
         ELSE /\ disk.exists
              /\ disk.records =
                   Embedded(SubSeq(last.in.chunks, 1, last.in.persisted),
                            last.in.before.embeddings)

\* a failed write has left no store where a store with records stood
C26_Witness ==
  /\ FailedAfterDelete
  /\ Len(last.in.disk.records) > 0
  /\ last.in.persisted < 0
  /\ ~disk.exists
  /\ last.out.raised # NoException

\* an ingest run loaded documents, the chunker returned no chunk, and the
\* store factory returned an instance
ChunkedNothing(in) ==
  /\ ~IngestStepRaised(in)
  /\ ~LoadedNothing(in)
  /\ Len(in.chunkOut.value) = 0

\* C27: when documents are loaded but chunking yields no chunk, the CLI
\* ingest command still calls create_vector_store, which skips the write,
\* and returns normally as completed; the persisted store is what it was
\* before, absent or from an older ingestion, so a completed ingest does not
\* imply that it wrote a store.
C27_CompletedWithoutWrite ==
  (Ran("ingest") /\ ChunkedNothing(last.in)) =>
    /\ last.out.outcome = "returned"
    /\ last.out.code = 0
    /\ last.out.calls = <<"load", "chunk", "get_vector_db", "create_vector_store">>
    /\ disk = last.in.disk

\* an ingest run has completed without chunks while no store was persisted
C27_Witness ==
  /\ Ran("ingest")
  /\ ChunkedNothing(last.in)
  /\ last.out.outcome = "returned"
  /\ Calls(last.out.calls, "create_vector_store")
  /\ ~disk.exists

\* a read of the store through an instance: the store property, as_retriever
ReadAccess == Ran("store") \/ Ran("as_retriever")

\* the handle the read access gave
HandleRead ==
  IF Ran("store") THEN last.out.value ELSE last.out.value.handle

\* what C28 says of the accesses that return, of a successful write and of
\* the search requests
HandleKept ==
  /\ (ReadAccess /\ last.out.raised = NoException) =>
       wrappers[last.w]._store = HandleRead
  /\ WroteChunks => wrappers[last.w]._store # None
  /\ WorkingSearch =>
       /\ CalledBefore(last.out.calls, "ChromaVectorDB", "exists")
       /\ ~last.in.disk.exists => last.out.status = 503

\* C28 as claimed: on one instance, once a handle is cached (by a successful
\* store access or a successful create_vector_store) every later store or
\* as_retriever access returns that handle without looking at the
\* persistence path, so FileNotFoundError is raised only while no handle is
\* cached and a later removal of the directory goes unnoticed; each
\* non-blank /search request builds a fresh instance and looks at the path.
C28_Original ==
  /\ (ReadAccess /\ last.in.before._store # None) =>
       /\ last.out.raised = NoException
       /\ HandleRead = last.in.before._store
       /\ ~Calls(last.out.calls, "exists")
       /\ wrappers[last.w] = last.in.before
  /\ (ReadAccess /\ last.out.raised = FileNotFoundError) =>
       last.in.before._store = None
  /\ HandleKept

\* C28, amended: as claimed, except that an as_retriever access on a cached
\* handle returns (a retriever on that handle) unless the handle's
\* as_retriever(...) raises, and then raises that exception, which can be a
\* FileNotFoundError of the library's; the store property on a cached handle
\* always returns it, neither access looks at the path or opens the store
\* again, and the FileNotFoundError of the path check is raised only while
\* no handle is cached.
C28_CachedHandleSkipsPathCheck ==
  /\ (ReadAccess /\ last.in.before._store # None) =>
       /\ last.out.raised = (IF Ran("store") THEN NoException ELSE last.in.retr)
       /\ last.out.raised = NoException => HandleRead = last.in.before._store
       /\ ~Calls(last.out.calls, "exists")
       /\ ~Calls(last.out.calls, "Chroma")
       /\ wrappers[last.w] = last.in.before
  /\ (ReadAccess /\ last.out.calls = <<"exists">>) =>
       /\ last.out.raised = FileNotFoundError
       /\ last.in.before._store = None
  /\ HandleKept

\* an access on an instance with a cached handle has returned the handle
\* although the directory had been removed
C28_Witness ==
  /\ ReadAccess
  /\ last.in.before._store # None
  /\ ~last.in.disk.exists
  /\ last.out.raised = NoException
  /\ HandleRead = last.in.before._store

\* C25 as claimed: setup_logger(name) returns the logger registered under
\* that name, with at least one handler attached (it returns whenever the
\* logger has a handler already or the configured level is a level name); a
\* further call with the same name returns the same logger and adds no
\* handler; so no logger ever carries more than the one handler setup_logger
\* installed.
C25_SetupLoggerIdempotent ==
  /\ \A n \in LoggerNames : Len(loggers[n].handlers) <= 1
  /\ Ran("setup_logger") =>
       /\ last.out.raised = NoException <=>
            (last.in.had \/ upper(last.in.log_level) \in LevelNames)
       /\ last.out.raised = NoException =>
            /\ last.out.value = last.in.name
            /\ Len(loggers[last.in.name].handlers) >= 1

=============================================================================
